---- MODULE Spec2Model ----
(***************************************************************************)
(* A model of the Rustume core: the rich-text normaliser, the format       *)
(* adapters, command-line format detection, the thumbnail cache of the     *)
(* HTTP service and the in-memory persistence backend.                     *)
(*                                                                         *)
(* Strings are sequences of lexemes.  A lexeme is one character ("#", "<", *)
(* " ", ...), one whole HTML tag ("<p>", "</li>", ...), one character      *)
(* reference ("&lt;") or one word of engine markup that holds no special   *)
(* character ("linebreak()").                                              *)
(***************************************************************************)
EXTENDS Integers, Sequences, FiniteSets, TLC

VARIABLES
    html,      \* the rich-text field handed to convert_field
    typst,     \* convert_field(html), once computed
    typst2,    \* convert_field(typst), once computed
    npc,       \* position of the normaliser run: "start", "once", "twice"
    adapter,   \* the parser in use: "v1", "v3" or "linkedin"
    bytes,     \* the input handed to Parser::parse
    ppc,       \* position in the pipeline: "start", "read", "validated",
               \* "parsed", "checked", or "failed"
    raw,       \* RawData, the result of read
    typed,     \* ValidatedData, the result of validate
    doc,       \* the ResumeData convert returns
    perr,      \* the ParseError returned, with the stage that raised it
    errors,    \* the ValidationErrors of ResumeData::validate on doc
    inputPath, \* the path given to the parse command
    fileData,  \* the bytes read from that path
    formatFlag, \* the --format option, None when not given
    format,    \* the InputFormat the command settles on, or the error
    cpc,       \* position of the command: "start", "done"
    thumbnail_cache, \* the process-wide HashMap from template id to PNG
    cacheLock, \* the request holding the cache Mutex, Unlocked when free
    req,       \* per thumbnail request: position, id, rendered png, response
    inserted,  \* history: the cache inserts made, in order
    data,      \* MemoryStorage.data: the HashMap from id to ResumeData
    readers,   \* the calls holding a read guard of the RwLock
    writer,    \* the call holding the write guard, None when there is none
    calls,     \* per client: the call in progress, its position, its locals
    log,       \* history: the completed calls, in order of completion
    vdoc, \* the ResumeData handed to a validating surface
    surface, \* the surface: "http_validate", "http_render" or "cli_validate"
    verrs, \* the ValidationErrors of vdoc.validate(), as its leaves
    report, \* the lines the surface reports
    vpc, \* position of the surface: "start", "validated", "reported"
    renderer, \* TypstRenderer.default_template of the renderer in use
    rdoc, \* the document rendered: metadata.template, page.margin, font.size
    rop, \* the operation called, and the page asked of render_preview
    source, \* the driver generate_source returned, NoVal before
    pages, \* the compiled document with its number of pages, NoVal before
    engineCalls, \* how many times typst::compile has been invoked
    rresult, \* what the operation returned
    rpc, \* position of the operation: "start", "generated", "compiled", "done"
    custom, \* Sections.custom: the HashMap from key to the id of its custom section
    insertOrder, \* history: the keys of custom in the order they were inserted
    written, \* per output, the custom keys in the order they were written
    sreq, \* a render request: its surface, its document, its template option
    sdoc, \* the handler's local resume
    validated, \* history: the document resume.validate() accepted, NoVal when none
    rendered, \* history: the documents handed to the renderer, in order
    sresp, \* the status the surface answers with, or the command's exit code
    spc, \* position of the handler: "start", "templated", "valid", "done"
    slug, \* the template name a page asks the theme of
    listed, \* what the binding's list_templates returned, NoVal before
    jsTheme, \* what the binding's get_template_theme_js returned for slug
    engineTheme, \* what the renderer's get_template_theme returns for slug
    layout, \* the layout handed to move_item_in_layout: pages of columns of section ids
    current, \* the locator of the item to move
    target, \* the locator to move it to
    moved, \* the layout move_item_in_layout returned
    idb, \* the object store "resumes" of the IndexedDB database: id to JSON string
    tx, \* per call of IndexedDbStorage: its transaction, its requests, what it saw
    ddoc, \* the document whose driver is generated: strings as sequences of characters
    driver \* the result of generate_source: the driver text as a sequence of lexemes

normVars == <<html, typst, typst2, npc>>

parseVars == <<adapter, bytes, ppc, raw, typed, doc, perr, errors>>

cliVars == <<inputPath, fileData, formatFlag, format, cpc>>

thumbVars == <<thumbnail_cache, cacheLock, req, inserted>>

storeVars == <<data, readers, writer, calls, log>>

valVars == <<vdoc, surface, verrs, report, vpc>>

renderVars == <<renderer, rdoc, rop, source, pages, engineCalls, rresult, rpc>>

customVars == <<custom, insertOrder, written>>

serveVars == <<sreq, sdoc, validated, rendered, sresp, spc>>

catalogueVars == <<slug, listed, jsTheme, engineTheme>>

layoutVars == <<layout, current, target, moved>>

idbVars == <<idb, tx>>

driverVars == <<ddoc, driver>>

vars == <<normVars, parseVars, cliVars, thumbVars, storeVars, valVars, renderVars, customVars, serveVars, catalogueVars, layoutVars, idbVars, driverVars>>

(***************************************************************************)
(* Bounds                                                                  *)
(***************************************************************************)
MaxHtmlLen == 5

MaxItems == 1

MaxPathLen == 2

MaxRequests == 3

MaxCalls == 3

None == "none"

NoVal == [t |-> "none"]

\* A tokio Mutex no task holds
Unlocked == 0

(***************************************************************************)
(* Each component runs on its own; the others are then at rest.            *)
(***************************************************************************)
IdleNorm == html = <<>> /\ typst = None /\ typst2 = None /\ npc = "idle"

IdleParse ==
    /\ adapter = "none" /\ bytes = NoVal /\ ppc = "idle" /\ raw = NoVal
    /\ typed = NoVal /\ doc = NoVal /\ perr = NoVal /\ errors = {}

IdleCli ==
    /\ inputPath = <<>> /\ fileData = NoVal /\ formatFlag = None
    /\ format = NoVal /\ cpc = "idle"

IdleThumb ==
    /\ thumbnail_cache = <<>> /\ cacheLock = Unlocked /\ req = <<>> /\ inserted = <<>>

IdleStore ==
    /\ data = <<>> /\ readers = {} /\ writer = None /\ calls = <<>> /\ log = <<>>

IdleVal ==
    /\ vdoc = NoVal /\ surface = None /\ verrs = {} /\ report = NoVal /\ vpc = "idle"

IdleRender ==
    /\ renderer = None /\ rdoc = NoVal /\ rop = NoVal /\ source = NoVal
    /\ pages = NoVal /\ engineCalls = 0 /\ rresult = NoVal /\ rpc = "idle"

IdleCustom ==
    /\ custom = <<>> /\ insertOrder = <<>> /\ written = NoVal

IdleServe ==
    /\ sreq = NoVal /\ sdoc = NoVal /\ validated = NoVal /\ rendered = <<>>
    /\ sresp = 0 /\ spc = "idle"

IdleCatalogue ==
    /\ slug = None /\ listed = NoVal /\ jsTheme = NoVal /\ engineTheme = NoVal

IdleLayout ==
    /\ layout = <<>> /\ current = NoVal /\ target = NoVal /\ moved = NoVal

IdleIdb ==
    /\ idb = <<>> /\ tx = <<>>

IdleDriver ==
    /\ ddoc = NoVal /\ driver = NoVal

notNorm == <<parseVars, cliVars, thumbVars, storeVars, valVars, renderVars, customVars, serveVars, catalogueVars, layoutVars, idbVars, driverVars>>

notParse == <<normVars, cliVars, thumbVars, storeVars, valVars, renderVars, customVars, serveVars, catalogueVars, layoutVars, idbVars, driverVars>>

notCli == <<normVars, parseVars, thumbVars, storeVars, valVars, renderVars, customVars, serveVars, catalogueVars, layoutVars, idbVars, driverVars>>

notThumb == <<normVars, parseVars, cliVars, storeVars, valVars, renderVars, customVars, serveVars, catalogueVars, layoutVars, idbVars, driverVars>>

notStore == <<normVars, parseVars, cliVars, thumbVars, valVars, renderVars, customVars, serveVars, catalogueVars, layoutVars, idbVars, driverVars>>

notVal == <<normVars, parseVars, cliVars, thumbVars, storeVars, renderVars, customVars, serveVars, catalogueVars, layoutVars, idbVars, driverVars>>

notRender == <<normVars, parseVars, cliVars, thumbVars, storeVars, valVars, customVars, serveVars, catalogueVars, layoutVars, idbVars, driverVars>>

notCustom == <<normVars, parseVars, cliVars, thumbVars, storeVars, valVars, renderVars, serveVars, catalogueVars, layoutVars, idbVars, driverVars>>

notServe == <<normVars, parseVars, cliVars, thumbVars, storeVars, valVars, renderVars, customVars, catalogueVars, layoutVars, idbVars, driverVars>>

notCatalogue == <<normVars, parseVars, cliVars, thumbVars, storeVars, valVars, renderVars, customVars, serveVars, layoutVars, idbVars, driverVars>>

notLayout == <<normVars, parseVars, cliVars, thumbVars, storeVars, valVars, renderVars, customVars, serveVars, catalogueVars, idbVars, driverVars>>

notIdb == <<normVars, parseVars, cliVars, thumbVars, storeVars, valVars, renderVars, customVars, serveVars, catalogueVars, layoutVars, driverVars>>

notDriver == <<normVars, parseVars, cliVars, thumbVars, storeVars, valVars, renderVars, customVars, serveVars, catalogueVars, layoutVars, idbVars>>

(***************************************************************************)
(* Lexemes                                                                 *)
(***************************************************************************)
\* char::is_whitespace; the lexeme "nbsp" stands for the no-break space U+00A0.
Whitespace == {" ", "\n", "nbsp"}

OpenTags == {"<p>", "<b>", "<ul>", "<li>"}

CloseTags == {"</p>", "</b>", "</ul>", "</li>"}

Tags == OpenTags \cup CloseTags \cup {"<br>"}

CloseOf(t) ==
    CASE t = "<p>" -> "</p>"
      [] t = "<b>" -> "</b>"
      [] t = "<ul>" -> "</ul>"
      [] t = "<li>" -> "</li>"

\* The characters a caller may put in a field, and the tags of the editor.
InputChars == {".", " ", "\n", "#", "<", "&", "&nbsp;"}

InputLexemes == InputChars \cup Tags

\* str::trim: drop leading and trailing whitespace.
RECURSIVE TrimStart(_)
TrimStart(s) ==
    IF s # <<>> /\ Head(s) \in Whitespace THEN TrimStart(Tail(s)) ELSE s

RECURSIVE TrimEnd(_)
TrimEnd(s) ==
    IF s # <<>> /\ s[Len(s)] \in Whitespace
    THEN TrimEnd(SubSeq(s, 1, Len(s) - 1))
    ELSE s

Trim(s) == TrimEnd(TrimStart(s))

\* str::contains('<'): a raw "<" or any tag.
ContainsLt(s) == \E i \in DOMAIN s : s[i] = "<" \/ s[i] \in Tags

(***************************************************************************)
(* escape_typst                                                            *)
(***************************************************************************)
\* The lexeme "grave" stands for the grave accent character.
TypstSpecial ==
    {"\\", "#", "[", "]", "$", "@", "*", "_", "grave", "%", "~", "<", ">"}

RECURSIVE escape_typst_lists(_)
escape_typst_lists(text) ==
    IF text = <<>> THEN <<>>
    ELSE (IF Head(text) \in TypstSpecial \cup {"-", "+"}
          THEN <<"\\", Head(text)>> ELSE <<Head(text)>>)
         \o escape_typst_lists(Tail(text))

RECURSIVE escape_typst(_)
escape_typst(text) ==
    IF text = <<>> THEN <<>>
    ELSE (IF Head(text) \in TypstSpecial
          THEN <<"\\", Head(text)>> ELSE <<Head(text)>>)
         \o escape_typst(Tail(text))

(***************************************************************************)
(* The HTML parser and serialiser, on fragments whose tags are well nested *)
(***************************************************************************)
\* A character reference in text decodes to its character.
DecodeRef(c) ==
    CASE c = "&lt;" -> "<"
      [] c = "&gt;" -> ">"
      [] c = "&amp;" -> "&"
      [] c = "&nbsp;" -> "nbsp"
      [] OTHER -> c

\* The serialiser writes these four text characters as references.
EncodeText(c) ==
    CASE c = "<" -> "&lt;"
      [] c = ">" -> "&gt;"
      [] c = "&" -> "&amp;"
      [] c = "nbsp" -> "&nbsp;"
      [] OTHER -> c

DecodeText(s) == [i \in DOMAIN s |-> DecodeRef(s[i])]

\* Every tag of the model is on the allow list and carries no attribute, so
\* the sanitiser keeps the tree and writes it back: tags as they were, text
\* decoded and encoded again.
sanitize_html(h) ==
    [i \in DOMAIN h |-> IF h[i] \in Tags THEN h[i] ELSE EncodeText(DecodeRef(h[i]))]

\* The tags open after reading a prefix, or "bad" when the prefix cannot be
\* part of a fragment the parser keeps as written.
OpenAfter(open, t) ==
    LET top == IF open = <<>> THEN "root" ELSE open[Len(open)] IN
    CASE t = "<p>" -> IF top = "root" THEN Append(open, t) ELSE <<"bad">>
      [] t = "<ul>" -> IF top = "root" THEN Append(open, t) ELSE <<"bad">>
      [] t = "<li>" -> IF top = "<ul>" THEN Append(open, t) ELSE <<"bad">>
      [] t = "<b>" -> IF top \in {"root", "<p>", "<li>"}
                      THEN Append(open, t) ELSE <<"bad">>
      [] t = "<br>" -> IF top = "<ul>" THEN <<"bad">> ELSE open
      [] t \in CloseTags -> IF top # "root" /\ CloseOf(top) = t
                            THEN SubSeq(open, 1, Len(open) - 1)
                            ELSE <<"bad">>
      [] OTHER -> open

\* Pairs <<prefix, open tags>> of at most n lexemes.
RECURSIVE Prefixes(_)
Prefixes(n) ==
    IF n = 0 THEN {<<<<>>, <<>>>>}
    ELSE LET shorter == Prefixes(n - 1)
             longest == {q \in shorter : Len(q[1]) = n - 1}
         IN  shorter \cup
             {<<Append(x[1][1], x[2]), OpenAfter(x[1][2], x[2])>> :
                x \in {y \in longest \X InputLexemes :
                         OpenAfter(y[1][2], y[2]) # <<"bad">>}}

Fragments(n) == {p[1] : p \in {q \in Prefixes(n) : q[2] = <<>>}}

(***************************************************************************)
(* process_node, as a walk over the lexemes with one frame per open        *)
(* element: the frame's buf is the String the recursive call appends to.   *)
(***************************************************************************)
Frame(tag, in_list) == [tag |-> tag, buf |-> <<>>, in_list |-> in_list, emitted_any |-> FALSE]

AppendTop(stack, s) == [stack EXCEPT ![Len(stack)].buf = @ \o s]

RECURSIVE TextRunLen(_)
TextRunLen(toks) ==
    IF toks = <<>> \/ Head(toks) \in Tags THEN 0 ELSE 1 + TextRunLen(Tail(toks))

\* What the element closed by the top frame appends to its parent's output.
CloseElement(stack) ==
    LET top == stack[Len(stack)]
        below == SubSeq(stack, 1, Len(stack) - 1)
        inner == top.buf
        trimmed == Trim(inner)
    IN  CASE top.tag = "<p>" ->
               IF trimmed # <<>> /\ trimmed # <<"#", "linebreak()">>
               THEN AppendTop(below, trimmed \o <<"\n", "\n">>)
               ELSE below
          [] top.tag = "<b>" ->
               IF inner # <<>>
               THEN AppendTop(below, <<"#", "text(weight: \"bold\")", "[">> \o inner \o <<"]">>)
               ELSE below
          [] top.tag = "<li>" ->
               IF trimmed # <<>>
               THEN [AppendTop(below, <<"-", " ">> \o trimmed \o <<"\n">>)
                        EXCEPT ![Len(below)].emitted_any = TRUE]
               ELSE below
          [] top.tag = "<ul>" ->
               AppendTop(below, inner \o (IF top.emitted_any THEN <<"\n">> ELSE <<>>))

RECURSIVE process_node(_, _)
process_node(toks, stack) ==
    IF toks = <<>> THEN stack[1].buf
    ELSE
      LET t == Head(toks)
          top == stack[Len(stack)]
      IN
      IF t \notin Tags THEN
          \* Node::Text: one node per maximal run of text
          LET n == TextRunLen(toks)
              text == DecodeText(SubSeq(toks, 1, n))
              rest == SubSeq(toks, n + 1, Len(toks))
          IN  IF top.tag = "<ul>" THEN process_node(rest, stack)
              ELSE IF top.in_list /\ \A i \in DOMAIN text : text[i] \in Whitespace
                   THEN process_node(rest, stack)
                   ELSE process_node(rest, AppendTop(stack, escape_typst(text)))
      ELSE IF t = "<br>" THEN
          process_node(Tail(toks), AppendTop(stack, <<"#", "linebreak()", "\n">>))
      ELSE IF t \in OpenTags THEN
          process_node(Tail(toks),
              Append(stack, Frame(t, CASE t = "<p>" -> FALSE
                                       [] t = "<li>" -> TRUE
                                       [] OTHER -> top.in_list)))
      ELSE process_node(Tail(toks), CloseElement(stack))

(***************************************************************************)
(* clean_output, html_to_typst, convert_field                              *)
(***************************************************************************)
RECURSIVE CollapseNewlines(_)
CollapseNewlines(s) ==
    IF \E i \in 1..Len(s) - 2 : s[i] = "\n" /\ s[i + 1] = "\n" /\ s[i + 2] = "\n"
    THEN LET i == CHOOSE k \in 1..Len(s) - 2 :
                     /\ s[k] = "\n" /\ s[k + 1] = "\n" /\ s[k + 2] = "\n"
                     /\ \A m \in 1..k - 1 :
                           ~(s[m] = "\n" /\ s[m + 1] = "\n" /\ s[m + 2] = "\n")
         IN  CollapseNewlines(SubSeq(s, 1, i - 1) \o SubSeq(s, i + 1, Len(s)))
    ELSE s

clean_output_trim_only(s) == Trim(s)

clean_output(s) == Trim(CollapseNewlines(s))

html_to_typst(h) ==
    LET trimmed == Trim(h) IN
    IF trimmed = <<>> THEN <<>>
    ELSE IF ~ContainsLt(trimmed) THEN escape_typst(trimmed)
    ELSE clean_output(process_node(trimmed, <<Frame("root", FALSE)>>))

convert_field(h) == IF h = <<>> THEN <<>> ELSE html_to_typst(sanitize_html(h))

(***************************************************************************)
(* The normaliser run: a field is converted, and its result converted      *)
(* again.                                                                  *)
(***************************************************************************)
InitNorm ==
    /\ html \in Fragments(MaxHtmlLen)
    /\ typst = None
    /\ typst2 = None
    /\ npc = "start"
    /\ IdleParse /\ IdleCli /\ IdleThumb /\ IdleStore /\ IdleVal /\ IdleRender /\ IdleCustom /\ IdleServe /\ IdleCatalogue /\ IdleLayout /\ IdleIdb /\ IdleDriver

Convert ==
    /\ npc = "start"
    /\ typst' = convert_field(html)
    /\ npc' = "once"
    /\ UNCHANGED <<html, typst2>>
    /\ UNCHANGED notNorm

Reconvert ==
    /\ npc = "once"
    /\ typst2' = convert_field(typst)
    /\ npc' = "twice"
    /\ UNCHANGED <<html, typst>>
    /\ UNCHANGED notNorm

NextNorm == Convert \/ Reconvert

SpecNorm == InitNorm /\ [][NextNorm]_vars

(***************************************************************************)
(* Claims about the normaliser                                             *)
(***************************************************************************)
CharRefs == {"&lt;", "&gt;", "&amp;", "&nbsp;"}

\* No lexeme of s is an engine-special character, holds a "&" or is a no-break space.
PlainOutput(s) ==
    \A i \in DOMAIN s : s[i] \notin TypstSpecial \cup CharRefs \cup {"&", "nbsp"}

RECURSIVE SeqsUpTo(_, _)
SeqsUpTo(S, n) ==
    IF n = 0 THEN {<<>>}
    ELSE LET shorter == SeqsUpTo(S, n - 1) IN
         shorter \cup {Append(q, x) : q \in {r \in shorter : Len(r) = n - 1}, x \in S}

HexDigits ==
    {"0", "1", "2", "3", "4", "5", "6", "7", "8", "9",
     "a", "b", "c", "d", "e", "f", "A", "B", "C", "D", "E", "F"}

Letters == {"j", "x", "c", "o", "y"} \cup (HexDigits \ {"0", "1", "2", "3", "4", "5", "6", "7", "8", "9"})

Digits == {"0", "1", "2", "3", "4", "5", "6", "7", "8", "9"}

\* URL_REGEX ^https?://[^\s]+$ ; "http" and "://" are single lexemes.
validate_optional_url(url) ==
    \/ url = <<>>
    \/ LET rest == IF Len(url) >= 2 /\ url[2] = "s" THEN SubSeq(url, 3, Len(url))
                   ELSE Tail(url)
       IN  /\ url[1] = "http"
           /\ Len(rest) >= 2
           /\ rest[1] = "://"
           /\ \A i \in 2..Len(rest) : rest[i] \notin Whitespace

\* EMAIL_REGEX ^[a-zA-Z0-9._%+-]+@[a-zA-Z0-9.-]+\.[a-zA-Z]{2,}$
validate_optional_email(email) ==
    \/ email = <<>>
    \/ \E at \in 2..Len(email), dot \in 4..Len(email) - 2 :
          /\ at + 1 < dot
          /\ email[at] = "@"
          /\ email[dot] = "."
          /\ \A i \in 1..at - 1 :
                email[i] \in Letters \cup Digits \cup {".", "_", "%", "+", "-"}
          /\ \A i \in at + 1..dot - 1 : email[i] \in Letters \cup Digits \cup {".", "-"}
          /\ \A i \in dot + 1..Len(email) : email[i] \in Letters

RECURSIVE TrimStartHash(_)
TrimStartHash(color) ==
    IF color # <<>> /\ Head(color) = "#" THEN TrimStartHash(Tail(color)) ELSE color

validate_hex_color(color) ==
    \/ color = <<>>
    \/ LET c == TrimStartHash(color) IN
       Len(c) = 6 /\ \A i \in 1..6 : c[i] \in HexDigits

EmptyUrl == [label |-> <<>>, href |-> <<>>]

\* Url::new
NewUrl(href) == [label |-> <<>>, href |-> href]

\* ResumeData::default, restricted to the validated fields the adapters write.
DefaultDoc ==
    [basics |-> [headline |-> <<>>, email |-> <<>>, location |-> <<>>, url |-> EmptyUrl],
     profiles |-> [columns |-> 1, items |-> <<>>],
     experience |-> [columns |-> 1, items |-> <<>>],
     skills |-> [columns |-> 1, items |-> <<>>],
     theme |-> [background |-> <<"#", "f", "f", "f", "f", "f", "f">>,
               text |-> <<"#", "0", "0", "0", "0", "0", "0">>,
               primary |-> <<"#", "d", "c", "2", "6", "2", "6">>]]

Err(path, index) == [path |-> path, index |-> index]

ErrIf(violated, e) == IF violated THEN {e} ELSE {}

\* The derived ResumeData::validate: every rule, through nested structs and lists.
Validate(d) ==
    ErrIf(~validate_optional_email(d.basics.email), Err("basics.email", 0))
    \cup ErrIf(~validate_optional_url(d.basics.url.href), Err("basics.url.href", 0))
    \cup {Err("sections." \o sec \o ".columns", 0) :
            sec \in {n \in {"profiles", "experience", "skills"} : d[n].columns \notin 1..5}}
    \cup {Err("sections.profiles.items[].url.href", i - 1) :
            i \in {k \in DOMAIN d.profiles.items :
                     ~validate_optional_url(d.profiles.items[k].url.href)}}
    \cup {Err("sections.experience.items[].url.href", i - 1) :
            i \in {k \in DOMAIN d.experience.items :
                     ~validate_optional_url(d.experience.items[k].url.href)}}
    \cup {Err("sections.skills.items[].level", i - 1) :
            i \in {k \in DOMAIN d.skills.items : d.skills.items[k].level \notin 0..5}}
    \cup {Err("metadata.theme." \o field, 0) :
            field \in {n \in {"background", "text", "primary"} :
                        ~validate_hex_color(d.theme[n])}}

(***************************************************************************)
(* Adapter inputs.  A JSON value carries its type; bytes carry the         *)
(* envelope they decode in.                                                *)
(***************************************************************************)
JAbsent == [t |-> "absent"]

JStr(str) == [t |-> "str", s |-> str]

JNum(num) == [t |-> "num", n |-> num]

JUrl(label, href) == [t |-> "obj", label |-> label, href |-> href]

EmailOk == <<"j", "@", "x", ".", "c", "o">>

EmailBad == <<"j", "@", "x">>

UrlY == <<"http", "s", "://", "y">>

UrlX == <<"http", "://", "x">>

UrlBad == <<"y">>

Emails == {JAbsent, JStr(EmailOk), JStr(EmailBad)}

\* A v3 url: missing, a string, an object with or without label and href, or
\* (wrongly) a number.
V3Urls ==
    {JAbsent, JStr(UrlY), JStr(UrlBad), JUrl(JAbsent, JStr(UrlY)),
     JUrl(JStr(<<"Site">>), JStr(UrlX)), JUrl(JStr(<<"Site">>), JAbsent), JNum(7)}

V3Values ==
    {[t |-> "object",
      basics |-> [email |-> e, url |-> u],
      experience |-> [columns |-> c, items |-> its],
      skills |-> [items |-> ls],
      theme |-> [primary |-> p]] :
        e \in Emails, u \in V3Urls, c \in {JAbsent, JNum(0), JNum(2), JNum(6)},
        its \in SeqsUpTo({[url |-> x] : x \in V3Urls}, MaxItems),
        ls \in SeqsUpTo({[level |-> x] : x \in {JAbsent, JNum(3), JNum(9)}}, MaxItems),
        p \in {JAbsent, JStr(<<"#", "0", "0", "0", "0", "0", "0">>), JStr(<<"r", "e", "d">>)}}

V1Urls == {JAbsent, JStr(UrlY), JStr(UrlBad), JNum(7)}

V1Values ==
    {[t |-> "object",
      basics |-> [label |-> l, email |-> e, url |-> u],
      work |-> w] :
        l \in {JAbsent, JStr(<<"Dev">>)}, e \in Emails, u \in V1Urls,
        w \in SeqsUpTo({[url |-> x] : x \in V1Urls}, MaxItems)}

Columns == {JAbsent, JStr(<<>>), JStr(<<"SF">>)}

\* An archive: whether its CSV entries are UTF-8, the first row of the
\* profile CSV (if any), and the rows of the e-mail CSV.
ZipValues ==
    {[utf8 |-> u8, profile |-> pr, emails |-> em] :
        u8 \in BOOLEAN,
        pr \in {JAbsent} \cup
               {[t |-> "row", geo_location |-> g, location |-> l, websites |-> w] :
                  g \in Columns, l \in {JAbsent, JStr(<<>>), JStr(<<"NYC">>)},
                  w \in SeqsUpTo({UrlY, UrlBad}, 1)},
        em \in SeqsUpTo({EmailOk, EmailBad}, MaxItems)}

Garbage == [kind |-> "garbage"]

JsonText(v) == [kind |-> "json", value |-> v]

ZipFile(z) == [kind |-> "zip", zip |-> z]

Adapters == {"v1", "v3", "linkedin"}

\* What each adapter is fed: bytes of no envelope, the other envelope, and
\* its own envelope with every content of the model.
Inputs(a) ==
    {Garbage} \cup
    (CASE a = "v1" -> {JsonText(v) : v \in V1Values \cup {JStr(<<"x">>)}}
                        \cup {ZipFile(z) : z \in {q \in ZipValues : q.profile = JAbsent /\ q.emails = <<>>}}
       [] a = "v3" -> {JsonText(v) : v \in V3Values \cup {JStr(<<"x">>)}}
                        \cup {ZipFile(z) : z \in {q \in ZipValues : q.profile = JAbsent /\ q.emails = <<>>}}
       [] a = "linkedin" -> {ZipFile(z) : z \in ZipValues} \cup {JsonText(JStr(<<"x">>))})

(***************************************************************************)
(* The three stages of each Parser                                         *)
(***************************************************************************)
Ok(v) == [ok |-> TRUE, val |-> v]

Fail(k) == [ok |-> FALSE, kind |-> k]

\* serde_json::from_slice for the JSON adapters; the archive adapter passes
\* the bytes through.
read_eager(a, input) ==
    IF a = "linkedin"
    THEN IF input.kind = "zip" THEN Ok(input) ELSE Fail("ReadError")
    ELSE IF input.kind = "json" THEN Ok(input.value) ELSE Fail("ReadError")

read(a, input) ==
    IF a = "linkedin" THEN Ok(input)
    ELSE IF input.kind = "json" THEN Ok(input.value) ELSE Fail("ReadError")

IsOptString(j) == j.t \in {"absent", "str"}

IsOptU8(j) == j.t = "absent" \/ (j.t = "num" /\ j.n \in 0..255)

\* The untagged V3Url: null, a string, or an object of optional strings.
IsOptV3Url(j) ==
    \/ j.t \in {"absent", "str"}
    \/ j.t = "obj" /\ IsOptString(j.label) /\ IsOptString(j.href)

\* serde_json::from_value into the typed structs; LinkedInParser::parse_zip.
validate(a, src) ==
    CASE a = "v1" ->
           IF /\ src.t = "object"
              /\ IsOptString(src.basics.label)
              /\ IsOptString(src.basics.email)
              /\ IsOptString(src.basics.url)
              /\ \A i \in DOMAIN src.work : IsOptString(src.work[i].url)
           THEN Ok(src) ELSE Fail("ValidationError")
      [] a = "v3" ->
           IF /\ src.t = "object"
              /\ IsOptString(src.basics.email)
              /\ IsOptV3Url(src.basics.url)
              /\ IsOptU8(src.experience.columns)
              /\ \A i \in DOMAIN src.experience.items : IsOptV3Url(src.experience.items[i].url)
              /\ \A i \in DOMAIN src.skills.items : IsOptU8(src.skills.items[i].level)
              /\ IsOptString(src.theme.primary)
           THEN Ok(src) ELSE Fail("ValidationError")
      [] a = "linkedin" ->
           IF src.kind # "zip" THEN Fail("ReadError")        \* ZipArchive::new
           ELSE IF ~src.zip.utf8 THEN Fail("ReadError")      \* read_to_string
           ELSE Ok(src.zip)

\* Option::unwrap_or on a JSON string or number
StrOr(j, default) == IF j.t = "str" THEN j.s ELSE default

NumOr(j, default) == IF j.t = "num" THEN j.n ELSE default

to_href(u) ==
    CASE u.t = "absent" -> <<>>
      [] u.t = "str" -> u.s
      [] u.t = "obj" -> StrOr(u.href, <<>>)

to_label(u) ==
    CASE u.t = "absent" -> <<>>
      [] u.t = "str" -> u.s
      [] u.t = "obj" -> IF u.label.t = "str" THEN u.label.s ELSE StrOr(u.href, <<>>)

Min(a, b) == IF a <= b THEN a ELSE b

\* ReactiveResumeV3Parser::convert
convert_v3(src) ==
    [DefaultDoc EXCEPT
       !.basics.email = StrOr(src.basics.email, <<>>),
       !.basics.url = IF src.basics.url.t = "absent" THEN EmptyUrl
                      ELSE [label |-> to_label(src.basics.url),
                            href |-> to_href(src.basics.url)],
       !.experience.columns = NumOr(src.experience.columns, 1),
       !.experience.items =
           [i \in DOMAIN src.experience.items |->
              [url |-> IF src.experience.items[i].url.t = "absent" THEN EmptyUrl
                       ELSE NewUrl(to_href(src.experience.items[i].url))]],
       !.skills.items =
           [i \in DOMAIN src.skills.items |->
              [level |-> IF src.skills.items[i].level.t = "absent" THEN 0
                         ELSE Min(src.skills.items[i].level.n, 5)]],
       !.theme.primary = StrOr(src.theme.primary, <<"#", "d", "c", "2", "6", "2", "6">>)]

\* JsonResumeParser::convert
convert_v1(src) ==
    [DefaultDoc EXCEPT
       !.basics.headline = StrOr(src.basics.label, <<>>),
       !.basics.email = StrOr(src.basics.email, <<>>),
       !.basics.url = NewUrl(StrOr(src.basics.url, <<>>)),
       !.experience.items =
           [i \in DOMAIN src.work |->
              [url |-> IF src.work[i].url.t = "absent" THEN EmptyUrl
                       ELSE NewUrl(src.work[i].url.s)]]]

\* parse_profile_csv: row.get("geo_location").or_else(|| row.get("location"))
\*                       .cloned().filter(|s| !s.is_empty())
profile_location(row) ==
    LET got == IF row.geo_location.t # "absent" THEN row.geo_location ELSE row.location
    IN  IF got.t = "str" /\ got.s # <<>> THEN got ELSE JAbsent

\* LinkedInParser::convert
convert_linkedin(src) ==
    LET withProfile ==
          IF src.profile.t = "absent" THEN DefaultDoc
          ELSE [DefaultDoc EXCEPT
                  !.basics.location = StrOr(profile_location(src.profile), <<>>),
                  !.basics.url = IF src.profile.websites = <<>> THEN EmptyUrl
                                 ELSE NewUrl(Head(src.profile.websites))]
    IN  [withProfile EXCEPT
           !.basics.email = IF src.emails = <<>> THEN <<>> ELSE Head(src.emails),
           !.profiles.items = <<[url |-> NewUrl(<<"http", "s", "://", "linkedin.com/in/">>)]>>]

convert(a, src) ==
    CASE a = "v1" -> Ok(convert_v1(src))
      [] a = "v3" -> Ok(convert_v3(src))
      [] a = "linkedin" -> Ok(convert_linkedin(src))

(***************************************************************************)
(* Parser::parse, one stage per step, and the canonical validation of its  *)
(* result by the caller.                                                   *)
(***************************************************************************)
InitParse ==
    /\ adapter \in Adapters
    /\ bytes \in Inputs(adapter)
    /\ ppc = "start"
    /\ raw = NoVal
    /\ typed = NoVal
    /\ doc = NoVal
    /\ perr = NoVal
    /\ errors = {}
    /\ IdleNorm /\ IdleCli /\ IdleThumb /\ IdleStore /\ IdleVal /\ IdleRender /\ IdleCustom /\ IdleServe /\ IdleCatalogue /\ IdleLayout /\ IdleIdb /\ IdleDriver

Raise(r, stage) ==
    /\ perr' = [t |-> "error", kind |-> r.kind, stage |-> stage]
    /\ ppc' = "failed"

ReadStage ==
    /\ ppc = "start"
    /\ LET r == read(adapter, bytes) IN
         IF r.ok THEN raw' = r.val /\ ppc' = "read" /\ UNCHANGED perr
         ELSE Raise(r, "read") /\ UNCHANGED raw
    /\ UNCHANGED <<adapter, bytes, typed, doc, errors>>
    /\ UNCHANGED notParse

ValidateStage ==
    /\ ppc = "read"
    /\ LET r == validate(adapter, raw) IN
         IF r.ok THEN typed' = r.val /\ ppc' = "validated" /\ UNCHANGED perr
         ELSE Raise(r, "validate") /\ UNCHANGED typed
    /\ UNCHANGED <<adapter, bytes, raw, doc, errors>>
    /\ UNCHANGED notParse

ConvertStageDefault ==
    /\ ppc = "validated"
    /\ doc' = DefaultDoc /\ ppc' = "parsed" /\ UNCHANGED perr
    /\ UNCHANGED <<adapter, bytes, raw, typed, errors>>
    /\ UNCHANGED notParse

ConvertStage ==
    /\ ppc = "validated"
    /\ LET r == convert(adapter, typed) IN
         IF r.ok THEN doc' = r.val /\ ppc' = "parsed" /\ UNCHANGED perr
         ELSE Raise(r, "convert") /\ UNCHANGED doc
    /\ UNCHANGED <<adapter, bytes, raw, typed, errors>>
    /\ UNCHANGED notParse

\* resume.validate() on the parsed document
CheckDocument ==
    /\ ppc = "parsed"
    /\ errors' = Validate(doc)
    /\ ppc' = "checked"
    /\ UNCHANGED <<adapter, bytes, raw, typed, doc, perr>>
    /\ UNCHANGED notParse

NextParse == ReadStage \/ ValidateStage \/ ConvertStage \/ CheckDocument

SpecParse == InitParse /\ [][NextParse]_vars

(***************************************************************************)
(* Claims about the adapters                                               *)
(***************************************************************************)
\* C2: whatever an adapter's parse accepts passes the canonical validation.
C2_AdaptersProduceValid == ppc = "checked" => errors = {}

LabelDefaultsToHref(u, out) ==
    LET s == IF u.t = "str" THEN u.s ELSE u.href.s
    IN  (u.t = "str" \/ (u.t = "obj" /\ u.label.t = "absent" /\ u.href.t = "str"))
            => out = [label |-> s, href |-> s]

\* C3: the v3 adapter turns every URL given as a plain string s, or as an
\* object with href s and no label, into a URL of href s and label s, on
\* basics and on every section item.
C3_V3UrlLabelIsHref ==
    (adapter = "v3" /\ ppc \in {"parsed", "checked"}) =>
        /\ LabelDefaultsToHref(typed.basics.url, doc.basics.url)
        /\ \A i \in DOMAIN typed.experience.items :
              LabelDefaultsToHref(typed.experience.items[i].url, doc.experience.items[i].url)

ReadDone == ppc \in {"read", "validated", "parsed", "checked", "failed"}

ReadErrorAt(stage) == perr.t = "error" /\ perr.kind = "ReadError" /\ perr.stage = stage

\* The bytes decode in the adapter's envelope: JSON text, or a ZIP archive
\* whose CSV entries are UTF-8 text.
Decodable(a, b) ==
    IF a = "linkedin" THEN b.kind = "zip" /\ b.zip.utf8 ELSE b.kind = "json"

PathParts == {"cv", ".json", ".zip", ".ZIP"}

Paths == SeqsUpTo(PathParts, MaxPathLen)

\* str::ends_with(".zip")
EndsWithZip(path) == path # <<>> /\ path[Len(path)] = ".zip"

\* A serde_json::Value as far as detection looks into it: something that is
\* no JSON text, a non-object value, or an object with its keys of interest.
BasicsValues ==
    {JAbsent, [t |-> "scalar"]} \cup
    {[t |-> "object", label |-> l, headline |-> h] : l, h \in BOOLEAN}

JsonValues ==
    {[t |-> "scalar"]} \cup
    {[t |-> "object", sections |-> sec, metadata |-> md, basics |-> b] :
        sec, md \in BOOLEAN, b \in BasicsValues}

\* File contents: bytes that are not UTF-8, text that is not JSON, JSON text.
FileContents ==
    {[utf8 |-> FALSE, json |-> [t |-> "invalid"]], [utf8 |-> TRUE, json |-> [t |-> "invalid"]]}
    \cup {[utf8 |-> TRUE, json |-> j] : j \in JsonValues}

InputFormats == {"JsonResume", "LinkedIn", "Rrv3", "Rustume"}

\* Value::get(key).is_some() for a key of the top-level object
HasKey(json, key) ==
    /\ json.t = "object"
    /\ IF key = "basics" THEN json.basics.t # "absent" ELSE json[key]

\* basics.get(key).is_some()
BasicsHas(json, key) ==
    HasKey(json, "basics") /\ json.basics.t = "object" /\ json.basics[key]

detect_format_headline_first(path, bytes_) ==
    IF EndsWithZip(path) THEN Ok("LinkedIn")
    ELSE IF bytes_.utf8 /\ bytes_.json.t # "invalid"
    THEN IF HasKey(bytes_.json, "sections") /\ HasKey(bytes_.json, "metadata")
         THEN Ok("Rrv3")
         ELSE IF BasicsHas(bytes_.json, "headline") THEN Ok("Rustume")
         ELSE Ok("JsonResume")
    ELSE Fail("Could not detect inputPath format")

detect_format(path, bytes_) ==
    IF EndsWithZip(path) THEN Ok("LinkedIn")
    ELSE IF bytes_.utf8 /\ bytes_.json.t # "invalid"
    THEN IF HasKey(bytes_.json, "sections") /\ HasKey(bytes_.json, "metadata")
         THEN Ok("Rrv3")
         ELSE IF BasicsHas(bytes_.json, "label") THEN Ok("JsonResume")
         ELSE IF BasicsHas(bytes_.json, "headline") THEN Ok("Rustume")
         ELSE Ok("JsonResume")
    ELSE Fail("Could not detect inputPath format")

InitCli ==
    /\ inputPath \in Paths
    /\ fileData \in FileContents
    /\ formatFlag \in {None} \cup InputFormats
    /\ format = NoVal
    /\ cpc = "start"
    /\ IdleNorm /\ IdleParse /\ IdleThumb /\ IdleStore /\ IdleVal /\ IdleRender /\ IdleCustom /\ IdleServe /\ IdleCatalogue /\ IdleLayout /\ IdleIdb /\ IdleDriver

\* cmd_parse, up to the choice of the parser
ChooseFormat ==
    /\ cpc = "start"
    /\ format' = IF formatFlag # None THEN Ok(formatFlag)
                 ELSE detect_format(inputPath, fileData)
    /\ cpc' = "done"
    /\ UNCHANGED <<inputPath, fileData, formatFlag>>
    /\ UNCHANGED notCli

NextCli == ChooseFormat

SpecCli == InitCli /\ [][NextCli]_vars

Detected == cpc = "done" /\ formatFlag = None

IsJson(d) == d.utf8 /\ d.json.t # "invalid"

\* C5 (as stated): .zip gives social-export; else JSON with sections and
\* metadata gives v3; else JSON with basics.label and no basics.headline
\* gives v1; else JSON with basics.headline gives canonical; any other input
\* gives v1.
C5_DetectionRules ==
    Detected =>
        format =
          Ok(IF EndsWithZip(inputPath) THEN "LinkedIn"
             ELSE IF IsJson(fileData) /\ HasKey(fileData.json, "sections")
                       /\ HasKey(fileData.json, "metadata") THEN "Rrv3"
             ELSE IF IsJson(fileData) /\ BasicsHas(fileData.json, "label")
                       /\ ~BasicsHas(fileData.json, "headline") THEN "JsonResume"
             ELSE IF IsJson(fileData) /\ BasicsHas(fileData.json, "headline") THEN "Rustume"
             ELSE "JsonResume")

\* C5 (amended): .zip gives social-export; otherwise input that is not JSON
\* text gives an error; JSON with sections and metadata gives v3; otherwise
\* JSON with basics.label gives v1 whether or not basics.headline is there;
\* otherwise JSON with basics.headline gives canonical; any other JSON
\* gives v1.
C5_DetectionOrder ==
    Detected =>
        LET j == fileData.json
            v3 == HasKey(j, "sections") /\ HasKey(j, "metadata")
        IN  /\ EndsWithZip(inputPath) => format = Ok("LinkedIn")
            /\ (~EndsWithZip(inputPath) /\ ~IsJson(fileData)) => ~format.ok
            /\ (~EndsWithZip(inputPath) /\ IsJson(fileData)) =>
                  /\ v3 => format = Ok("Rrv3")
                  /\ (~v3 /\ BasicsHas(j, "label")) => format = Ok("JsonResume")
                  /\ (~v3 /\ ~BasicsHas(j, "label") /\ BasicsHas(j, "headline")) =>
                        format = Ok("Rustume")
                  /\ (~v3 /\ ~BasicsHas(j, "label") /\ ~BasicsHas(j, "headline")) =>
                        format = Ok("JsonResume")

C5_Witness ==
    /\ Detected /\ ~EndsWithZip(inputPath) /\ IsJson(fileData)
    /\ BasicsHas(fileData.json, "label") /\ BasicsHas(fileData.json, "headline")
    /\ format = Ok("JsonResume")

(***************************************************************************)
(* The thumbnail cache of the HTTP service                                 *)
(***************************************************************************)
TEMPLATES ==
    {"rhyhorn", "azurill", "pikachu", "nosepass", "bronzor", "chikorita",
     "ditto", "gengar", "glalie", "kakuna", "leafish", "onyx"}

\* The ids requests come with: two of the catalogue, one outside it.
RequestedIds == {"rhyhorn", "onyx", "unknown"}

\* What render_preview can return: the bytes depend on the document and on
\* the date the templates read; a render can fail.
Pngs == {"pngA", "pngB"}

RenderOutcomes == {Ok(p) : p \in Pngs} \cup {Fail("RenderFailed")}

Requests == 1..MaxRequests

\* ApiErrorKind::status_code
status_code(kind) ==
    CASE kind = "BadRequest" -> 400
      [] kind = "UnprocessableEntity" -> 422
      [] kind = "InternalError" -> 500

Response(status, body) == [status |-> status, body |-> body]

NoResponse == Response(0, None)

\* HashMap::insert
cache_insert_if_absent(cache, id, png) ==
    [x \in DOMAIN cache \cup {id} |-> IF x \in DOMAIN cache THEN cache[x] ELSE png]

cache_insert(cache, id, png) ==
    [x \in DOMAIN cache \cup {id} |-> IF x = id THEN png ELSE cache[x]]

InitThumb ==
    /\ thumbnail_cache = <<>>
    /\ cacheLock = Unlocked
    /\ req = [r \in Requests |->
                [pc |-> "new", id |-> None, png |-> None, missed |-> FALSE,
                 overlapped |-> FALSE, cachedAtStart |-> FALSE,
                 response |-> NoResponse]]
    /\ inserted = <<>>
    /\ IdleNorm /\ IdleParse /\ IdleCli /\ IdleStore /\ IdleVal /\ IdleRender /\ IdleCustom /\ IdleServe /\ IdleCatalogue /\ IdleLayout /\ IdleIdb /\ IdleDriver

StartUnchecked(r, id) ==
    /\ req[r].pc = "new"
    /\ req' = [req EXCEPT ![r] =
                 [@ EXCEPT !.id = id, !.pc = "lock_lookup",
                           !.cachedAtStart = id \in DOMAIN thumbnail_cache]]
    /\ UNCHANGED <<thumbnail_cache, cacheLock, inserted>>
    /\ UNCHANGED notThumb

\* The handler is entered with an id; an id outside the catalogue is
\* answered at once with ApiError::new.  History: whether the cache held the
\* id when the request started.
Start(r, id) ==
    /\ req[r].pc = "new"
    /\ req' = [req EXCEPT ![r] =
                 IF id \notin TEMPLATES
                 THEN [@ EXCEPT !.id = id, !.pc = "done",
                                !.response = Response(status_code("BadRequest"), None)]
                 ELSE [@ EXCEPT !.id = id, !.pc = "lock_lookup",
                                !.cachedAtStart = id \in DOMAIN thumbnail_cache]]
    /\ UNCHANGED <<thumbnail_cache, cacheLock, inserted>>
    /\ UNCHANGED notThumb

\* thumbnail_cache().lock().await, before the lookup and before the insert
Acquire(r) ==
    /\ req[r].pc \in {"lock_lookup", "lock_insert"}
    /\ cacheLock = Unlocked
    /\ cacheLock' = r
    /\ req' = [req EXCEPT ![r].pc = IF @ = "lock_lookup" THEN "lookup" ELSE "insert"]
    /\ UNCHANGED <<thumbnail_cache, inserted>>
    /\ UNCHANGED notThumb

\* The requests past a miss for the same id and not yet finished
Computing(id) ==
    {q \in Requests : req[q].id = id /\ req[q].pc \in {"render", "lock_insert", "insert"}}

\* A miss sends the request on to render.  History: the request and those
\* already computing the same id are recorded as overlapping.
MarkMiss(r) ==
    LET others == Computing(req[r].id)
    IN  [q \in Requests |->
           IF q = r THEN [req[q] EXCEPT !.pc = "render", !.missed = TRUE,
                                        !.overlapped = (others # {})]
           ELSE IF q \in others THEN [req[q] EXCEPT !.overlapped = TRUE]
           ELSE req[q]]

LookupMissing(r) ==
    /\ req[r].pc = "lookup"
    /\ cacheLock = r
    /\ req' = MarkMiss(r)
    /\ cacheLock' = Unlocked
    /\ UNCHANGED <<thumbnail_cache, inserted>>
    /\ UNCHANGED notThumb

LookupHoldingLock(r) ==
    /\ req[r].pc = "lookup"
    /\ cacheLock = r
    /\ IF req[r].id \in DOMAIN thumbnail_cache
       THEN /\ req' = [req EXCEPT ![r].pc = "done",
                         ![r].response = Response(200, thumbnail_cache[req[r].id])]
            /\ cacheLock' = Unlocked
       ELSE /\ req' = MarkMiss(r)
            /\ UNCHANGED cacheLock
    /\ UNCHANGED <<thumbnail_cache, inserted>>
    /\ UNCHANGED notThumb

\* cache.get(&id) under the lock; the guard is dropped at the end of the
\* block, on a hit and on a miss.
Lookup(r) ==
    /\ req[r].pc = "lookup"
    /\ cacheLock = r
    /\ IF req[r].id \in DOMAIN thumbnail_cache
       THEN req' = [req EXCEPT ![r].pc = "done",
                      ![r].response = Response(200, thumbnail_cache[req[r].id])]
       ELSE req' = MarkMiss(r)
    /\ cacheLock' = Unlocked
    /\ UNCHANGED <<thumbnail_cache, inserted>>
    /\ UNCHANGED notThumb

\* renderer.render_preview(&resume, 0), with its error mapped to
\* ApiError::internal and returned
Render(r) ==
    /\ req[r].pc = "render"
    /\ \E out \in RenderOutcomes :
         req' = [req EXCEPT ![r] =
                   IF out.ok THEN [@ EXCEPT !.png = out.val, !.pc = "lock_insert"]
                   ELSE [@ EXCEPT !.pc = "done",
                                  !.response = Response(status_code("InternalError"), None)]]
    /\ UNCHANGED <<thumbnail_cache, cacheLock, inserted>>
    /\ UNCHANGED notThumb

\* cache.insert(id, png.clone()) under the lock, then the response
Insert(r) ==
    /\ req[r].pc = "insert"
    /\ cacheLock = r
    /\ thumbnail_cache' = cache_insert(thumbnail_cache, req[r].id, req[r].png)
    /\ inserted' = Append(inserted, [by |-> r, id |-> req[r].id, png |-> req[r].png])
    /\ cacheLock' = Unlocked
    /\ req' = [req EXCEPT ![r].pc = "done", ![r].response = Response(200, req[r].png)]
    /\ UNCHANGED notThumb

NextThumb ==
    \/ \E r \in Requests, id \in RequestedIds : Start(r, id)
    \/ \E r \in Requests : Acquire(r)
    \/ \E r \in Requests : Lookup(r)
    \/ \E r \in Requests : Render(r)
    \/ \E r \in Requests : Insert(r)

SpecThumb == InitThumb /\ [][NextThumb]_vars

AllDone == \A r \in Requests : req[r].pc = "done"

\* The requests for id that missed while another miss for id was computing
ConcurrentMisses(id) == {r \in Requests : req[r].id = id /\ req[r].overlapped}

InsertsOf(id) == SelectSeq(inserted, LAMBDA e : e.id = id)

InsertedBy(r) == \E i \in DOMAIN inserted : inserted[i].by = r

\* C6 (as stated): concurrent misses for one catalogue id each complete with
\* a PNG, and once all requests have finished the cache maps the id to the
\* bytes of the last insert.
C6_ConcurrentMissesAllSucceed ==
    \A id \in TEMPLATES :
        (AllDone /\ ConcurrentMisses(id) # {}) =>
            /\ \A r \in ConcurrentMisses(id) :
                  req[r].png \in Pngs /\ req[r].response = Response(200, req[r].png)
            /\ InsertsOf(id) # <<>>
            /\ id \in DOMAIN thumbnail_cache
            /\ thumbnail_cache[id] = InsertsOf(id)[Len(InsertsOf(id))].png

\* C6 (amended): each concurrent miss renders on its own and completes with
\* the PNG it rendered and inserted, or, when its render fails, with an
\* internal error and without inserting; once all requests have finished
\* the cache maps the id to the bytes of the last insert for it, and has no
\* entry for it when every render failed.
C6_LastWriterWins ==
    \A id \in TEMPLATES :
        (AllDone /\ ConcurrentMisses(id) # {}) =>
            /\ \A r \in ConcurrentMisses(id) :
                  \/ /\ req[r].png \in Pngs
                     /\ req[r].response = Response(200, req[r].png)
                     /\ InsertedBy(r)
                  \/ /\ req[r].png = None
                     /\ req[r].response = Response(500, None)
                     /\ ~InsertedBy(r)
            /\ IF InsertsOf(id) = <<>> THEN id \notin DOMAIN thumbnail_cache
               ELSE /\ id \in DOMAIN thumbnail_cache
                    /\ thumbnail_cache[id] = InsertsOf(id)[Len(InsertsOf(id))].png

C6_Witness ==
    /\ AllDone
    /\ \E id \in TEMPLATES :
         /\ Cardinality(ConcurrentMisses(id)) >= 2
         /\ Len(InsertsOf(id)) = 2
         /\ InsertsOf(id)[1].png # InsertsOf(id)[2].png
         /\ thumbnail_cache[id] = InsertsOf(id)[2].png
         /\ \E r \in ConcurrentMisses(id) : req[r].response.status = 500

\* C7: the cache mutex is held only across one lookup or one insert, never
\* by a request that is rendering, so a request waiting for the lock never
\* waits for a holder that is rendering.
C7_LockNotHeldWhileRendering ==
    \A r \in Requests :
        /\ cacheLock = r => req[r].pc \in {"lookup", "insert"}
        /\ req[r].pc \in {"render", "lock_insert"} => cacheLock # r

C7_Witness ==
    \E r, q \in Requests :
        /\ r # q /\ req[r].pc = "render" /\ req[r].id = req[q].id
        /\ cacheLock = q /\ req[q].pc = "lookup"

(***************************************************************************)
(* MemoryStorage: a HashMap behind an RwLock.  Every operation takes the   *)
(* guard, works on the map and drops the guard on return.  A document is   *)
(* moved in and out of the map part by part, so that what the lock         *)
(* excludes can be told from what it allows.                               *)
(***************************************************************************)
Clients == {"c1", "c2"}

Ids == {"a", "b"}

\* ResumeData values: the parts of one document carry the same version.
Versions == {"v1", "v2"}

Documents == {[basics |-> v, sections |-> v] : v \in Versions}

NoCall == [pc |-> "idle", op |-> None, id |-> None, doc |-> NoVal, part |-> None, before |-> <<>>]

\* Calls begun and not yet logged, plus calls logged
CallsMade == Len(log) + Cardinality({c \in Clients : calls[c].pc # "idle"})

InitStore ==
    /\ data = <<>>
    /\ readers = {}
    /\ writer = None
    /\ calls = [c \in Clients |-> NoCall]
    /\ log = <<>>
    /\ IdleNorm /\ IdleParse /\ IdleCli /\ IdleThumb /\ IdleVal /\ IdleRender /\ IdleCustom /\ IdleServe /\ IdleCatalogue /\ IdleLayout /\ IdleIdb /\ IdleDriver

ReadOps == {"list", "get", "exists"}

\* A client calls an operation; it then waits for the guard.
Call(c, op, id, resume) ==
    /\ calls[c].pc = "idle"
    /\ CallsMade < MaxCalls
    /\ calls' = [calls EXCEPT ![c] = [NoCall EXCEPT !.pc = "waiting", !.op = op,
                                                   !.id = id, !.doc = resume]]
    /\ UNCHANGED <<data, readers, writer, log>>
    /\ UNCHANGED notStore

\* self.data.read(): granted while no write guard is out
ReadLock(c) ==
    /\ calls[c].pc = "waiting" /\ calls[c].op \in ReadOps
    /\ writer = None
    /\ readers' = readers \cup {c}
    /\ calls' = [calls EXCEPT ![c].pc = "held", ![c].before = data]
    /\ UNCHANGED <<data, writer, log>>
    /\ UNCHANGED notStore

WriteLockShared(c) ==
    /\ calls[c].pc = "waiting" /\ calls[c].op \notin ReadOps
    /\ writer = None
    /\ writer' = c
    /\ calls' = [calls EXCEPT ![c].pc = "held", ![c].before = data]
    /\ UNCHANGED <<data, readers, log>>
    /\ UNCHANGED notStore

\* self.data.write(): granted while no guard at all is out
WriteLock(c) ==
    /\ calls[c].pc = "waiting" /\ calls[c].op \notin ReadOps
    /\ writer = None /\ readers = {}
    /\ writer' = c
    /\ calls' = [calls EXCEPT ![c].pc = "held", ![c].before = data]
    /\ UNCHANGED <<data, readers, log>>
    /\ UNCHANGED notStore

\* The call returns: its guard is dropped and the call is logged with what
\* the map held when it took the guard, what it holds now, and whether
\* another client has a call of its own in progress.
Return(c, result, after) ==
    /\ log' = Append(log, [op |-> calls[c].op, id |-> calls[c].id,
                           doc |-> calls[c].doc, result |-> result,
                           before |-> calls[c].before, after |-> after,
                           concurrent |-> \E x \in Clients \ {c} : calls[x].pc # "idle"])
    /\ calls' = [calls EXCEPT ![c] = NoCall]
    /\ readers' = readers \ {c}
    /\ writer' = IF writer = c THEN None ELSE writer

Holds(c, op) == calls[c].pc = "held" /\ calls[c].op = op

\* data.keys().cloned().collect()
list(c) ==
    /\ Holds(c, "list")
    /\ Return(c, Ok(DOMAIN data), data)
    /\ UNCHANGED data
    /\ UNCHANGED notStore

\* data.contains_key(id)
exists(c) ==
    /\ Holds(c, "exists")
    /\ Return(c, Ok(calls[c].id \in DOMAIN data), data)
    /\ UNCHANGED data
    /\ UNCHANGED notStore

\* data.get(id): a miss returns NotFound; a hit starts the clone
get(c) ==
    /\ Holds(c, "get")
    /\ IF calls[c].id \in DOMAIN data
       THEN /\ calls' = [calls EXCEPT ![c].pc = "cloning",
                                      ![c].part = data[calls[c].id].basics]
            /\ UNCHANGED <<readers, writer, log>>
       ELSE Return(c, Fail("NotFound"), data)
    /\ UNCHANGED data
    /\ UNCHANGED notStore

\* .cloned(): the rest of the document is copied out of the map
get_cloned(c) ==
    /\ calls[c].pc = "cloning"
    /\ LET rest == IF calls[c].id \in DOMAIN data THEN data[calls[c].id].sections ELSE None
       IN  Return(c, Ok([basics |-> calls[c].part, sections |-> rest]), data)
    /\ UNCHANGED data
    /\ UNCHANGED notStore

save_if_absent(c) ==
    /\ Holds(c, "save")
    /\ LET id == calls[c].id
       IN  data' = [x \in DOMAIN data \cup {id} |->
                      IF x \in DOMAIN data THEN data[x]
                      ELSE [basics |-> calls[c].doc.basics, sections |-> None]]
    /\ calls' = [calls EXCEPT ![c].pc = "inserting"]
    /\ UNCHANGED <<readers, writer, log>>
    /\ UNCHANGED notStore

\* data.insert(id, resume.clone()): the entry is made or overwritten ...
save(c) ==
    /\ Holds(c, "save")
    /\ LET id == calls[c].id
           old == IF id \in DOMAIN data THEN data[id].sections ELSE None
       IN  data' = [x \in DOMAIN data \cup {id} |->
                      IF x = id THEN [basics |-> calls[c].doc.basics, sections |-> old]
                      ELSE data[x]]
    /\ calls' = [calls EXCEPT ![c].pc = "inserting"]
    /\ UNCHANGED <<readers, writer, log>>
    /\ UNCHANGED notStore

\* ... and filled to the end
save_inserted(c) ==
    /\ calls[c].pc = "inserting"
    /\ LET id == calls[c].id
           now == [x \in DOMAIN data \cup {id} |->
                     IF x = id THEN [basics |-> IF id \in DOMAIN data THEN data[id].basics
                                                ELSE None,
                                     sections |-> calls[c].doc.sections]
                     ELSE data[x]]
       IN  data' = now /\ Return(c, Ok(None), now)
    /\ UNCHANGED notStore

delete_clearing(c) ==
    /\ Holds(c, "delete")
    /\ LET id == calls[c].id
           now == IF id \in DOMAIN data THEN [x \in DOMAIN data \ {id} |-> data[x]] ELSE <<>>
       IN  /\ data' = now
           /\ Return(c, IF id \in DOMAIN data THEN Ok(None) ELSE Fail("NotFound"), now)
    /\ UNCHANGED notStore

delete_without_remove(c) ==
    /\ Holds(c, "delete")
    /\ Return(c, IF calls[c].id \in DOMAIN data THEN Ok(None) ELSE Fail("NotFound"), data)
    /\ UNCHANGED data
    /\ UNCHANGED notStore

\* data.remove(id).ok_or_else(NotFound)
delete(c) ==
    /\ Holds(c, "delete")
    /\ LET id == calls[c].id
           now == [x \in DOMAIN data \ {id} |-> data[x]]
       IN  /\ data' = now
           /\ Return(c, IF id \in DOMAIN data THEN Ok(None) ELSE Fail("NotFound"), now)
    /\ UNCHANGED notStore

NextStore ==
    \/ \E c \in Clients, id \in Ids : Call(c, "get", id, NoVal)
    \/ \E c \in Clients, id \in Ids : Call(c, "exists", id, NoVal)
    \/ \E c \in Clients : Call(c, "list", None, NoVal)
    \/ \E c \in Clients, id \in Ids, d \in Documents : Call(c, "save", id, d)
    \/ \E c \in Clients, id \in Ids : Call(c, "delete", id, NoVal)
    \/ \E c \in Clients : ReadLock(c)
    \/ \E c \in Clients : WriteLock(c)
    \/ \E c \in Clients : list(c)
    \/ \E c \in Clients : exists(c)
    \/ \E c \in Clients : get(c)
    \/ \E c \in Clients : get_cloned(c)
    \/ \E c \in Clients : save(c)
    \/ \E c \in Clients : save_inserted(c)
    \/ \E c \in Clients : delete(c)

SpecStore == InitStore /\ [][NextStore]_vars

(***************************************************************************)
(* Claims about the persistence operations, read off the log               *)
(***************************************************************************)
\* Some call on id of kind op completed strictly between positions i and k
Between(i, k, op, id) ==
    \E m \in (i + 1)..(k - 1) : log[m].op = op /\ log[m].id = id

\* id was saved before position i and not deleted since
StoredAt(i, id) ==
    \E j \in 1..(i - 1) :
        /\ log[j].op = "save" /\ log[j].id = id
        /\ ~Between(j, i, "delete", id)

\* C8: delete(id) succeeds exactly when id is stored and fails with NotFound
\* otherwise; after a successful delete, exists(id) is false and get(id)
\* fails with NotFound until id is saved again.
C8_DeleteSemantics ==
    \A i \in DOMAIN log :
        log[i].op = "delete" =>
            /\ log[i].result = (IF StoredAt(i, log[i].id) THEN Ok(None) ELSE Fail("NotFound"))
            /\ log[i].result.ok =>
                  \A k \in (i + 1)..Len(log) :
                      (log[k].id = log[i].id /\ ~Between(i, k, "save", log[i].id)) =>
                          /\ log[k].op = "exists" => log[k].result = Ok(FALSE)
                          /\ log[k].op = "get" => log[k].result = Fail("NotFound")

C8_Witness ==
    \E i, k \in DOMAIN log :
        /\ i < k /\ log[i].op = "delete" /\ log[i].result.ok
        /\ log[k].op = "get" /\ log[k].id = log[i].id
        /\ log[k].result = Fail("NotFound")

\* C9: save(id, d) always succeeds; a get(id) that follows it returns d
\* whether or not id was stored before; saving a stored id keeps the number
\* of stored ids, and no save changes another id's document.
C9_SaveIsUpsert ==
    \A i \in DOMAIN log :
        log[i].op = "save" =>
            LET id == log[i].id
                before == log[i].before
                after == log[i].after
            IN  /\ log[i].result = Ok(None)
                /\ \A k \in (i + 1)..Len(log) :
                      (/\ log[k].op = "get" /\ log[k].id = id
                       /\ ~Between(i, k, "save", id) /\ ~Between(i, k, "delete", id))
                          => log[k].result = Ok(log[i].doc)
                /\ DOMAIN after = DOMAIN before \cup {id}
                /\ after[id] = log[i].doc
                /\ id \in DOMAIN before =>
                      Cardinality(DOMAIN after) = Cardinality(DOMAIN before)
                /\ \A x \in DOMAIN before \ {id} : after[x] = before[x]

C9_Witness ==
    \E i, k \in DOMAIN log :
        /\ i < k /\ log[i].op = "save" /\ log[i].id \in DOMAIN log[i].before
        /\ log[i].before[log[i].id] # log[i].doc
        /\ log[k].op = "get" /\ log[k].id = log[i].id /\ log[k].result = Ok(log[i].doc)

\* What a call returns, and the map it leaves, when it runs alone on map m
Alone(e, m) ==
    CASE e.op = "list" -> [result |-> Ok(DOMAIN m), after |-> m]
      [] e.op = "exists" -> [result |-> Ok(e.id \in DOMAIN m), after |-> m]
      [] e.op = "get" ->
           [result |-> IF e.id \in DOMAIN m THEN Ok(m[e.id]) ELSE Fail("NotFound"),
            after |-> m]
      [] e.op = "save" ->
           [result |-> Ok(None),
            after |-> [x \in DOMAIN m \cup {e.id} |-> IF x = e.id THEN e.doc ELSE m[x]]]
      [] e.op = "delete" ->
           [result |-> IF e.id \in DOMAIN m THEN Ok(None) ELSE Fail("NotFound"),
            after |-> [x \in DOMAIN m \ {e.id} |-> m[x]]]

\* C10: the completed calls, in order of completion, each behave as one
\* call run alone on the map the previous one left; a get returns NotFound
\* or exactly the document of one completed save, never a mixture.
C10_Atomic ==
    \A i \in DOMAIN log :
        /\ log[i].before = (IF i = 1 THEN <<>> ELSE log[i - 1].after)
        /\ log[i].result = Alone(log[i], log[i].before).result
        /\ log[i].after = Alone(log[i], log[i].before).after
        /\ (log[i].op = "get" /\ log[i].result.ok) =>
              /\ log[i].result.val \in Documents
              /\ \E j \in 1..(i - 1) :
                    /\ log[j].op = "save" /\ log[j].id = log[i].id
                    /\ log[j].doc = log[i].result.val

C10_Witness ==
    \E i, j \in DOMAIN log :
        /\ j < i /\ log[i].op = "get" /\ log[i].result.ok /\ log[i].concurrent
        /\ log[j].op = "save" /\ log[j].id = log[i].id /\ log[j].concurrent

(***************************************************************************)
(* Further claims about the adapters                                       *)
(***************************************************************************)
\* The positions parse can move between: each stage follows the one before
\* it, or ends the run with its error.
StageMoves ==
    {<<"start", "read">>, <<"start", "failed">>,
     <<"read", "validated">>, <<"read", "failed">>,
     <<"validated", "parsed">>, <<"validated", "failed">>,
     <<"parsed", "checked">>}

\* What has been computed at each position is what the stages give when
\* chained, and nothing of a later stage.
StagesChained ==
    LET r == read(adapter, bytes) IN
    /\ ppc = "start" => raw = NoVal /\ typed = NoVal /\ doc = NoVal /\ perr = NoVal
    /\ (ppc = "failed" /\ perr.stage = "read") =>
          ~r.ok /\ perr.kind = r.kind /\ raw = NoVal /\ typed = NoVal /\ doc = NoVal
    /\ (ppc = "failed" /\ perr.stage = "validate") =>
          /\ r.ok /\ raw = r.val /\ ~validate(adapter, raw).ok
          /\ perr.kind = validate(adapter, raw).kind
          /\ typed = NoVal /\ doc = NoVal
    /\ ppc = "read" => r.ok /\ raw = r.val /\ typed = NoVal /\ doc = NoVal /\ perr = NoVal
    /\ ppc = "validated" =>
          /\ r.ok /\ raw = r.val
          /\ typed = validate(adapter, raw).val /\ doc = NoVal /\ perr = NoVal
    /\ ppc \in {"parsed", "checked"} =>
          /\ r.ok /\ raw = r.val
          /\ typed = validate(adapter, raw).val
          /\ doc = convert(adapter, typed).val /\ perr = NoVal

\* C11: parse runs read, then validate on read's result, then convert on
\* validate's result; the first failing stage ends the run with its error
\* and no later stage runs; otherwise the result is what convert returns.
C11_StagesInOrder ==
    /\ [](ppc # "idle" => StagesChained)
    /\ [][/\ ppc' # ppc => <<ppc, ppc'>> \in StageMoves
          /\ ppc = "failed" => UNCHANGED parseVars]_vars

C11_Witness ==
    /\ ppc = "failed" /\ perr.stage = "validate" /\ perr.kind = "ValidationError"
    /\ adapter = "v3" /\ raw.t = "object" /\ typed = NoVal /\ doc = NoVal

(***************************************************************************)
(* The surfaces that validate a document and report what they find: the    *)
(* server's validate and render endpoints and the validate command.        *)
(***************************************************************************)
MaxColorLen == 8

MaxReported == 4

ColourChars == {"#", "F", "g"}

Colours == SeqsUpTo(ColourChars, MaxColorLen)

ThemeFields == {"background", "text", "primary"}

ThemeDocs ==
    {[DefaultDoc EXCEPT !.theme[field] = c] : field \in ThemeFields, c \in Colours}

ItemUrls == {UrlY, UrlBad}

ExperienceDocs ==
    {[DefaultDoc EXCEPT !.experience.items = [i \in DOMAIN us |-> [url |-> NewUrl(us[i])]]] :
        us \in SeqsUpTo(ItemUrls, MaxReported)}

Surfaces == {"http_validate", "http_render", "cli_validate"}

\* How the derived validate nests each rule's error: through structs, through
\* one list, down to the field.
Struct(name) == [kind |-> "Struct", name |-> name]

List(name) == [kind |-> "List", name |-> name]

Field(name) == [kind |-> "Field", name |-> name]

Nesting(path) ==
    CASE path = "basics.email" -> <<Struct("basics"), Field("email")>>
      [] path = "basics.url.href" -> <<Struct("basics"), Struct("url"), Field("href")>>
      [] path \in {"sections." \o sec \o ".columns" : sec \in {"profiles", "experience", "skills"}} ->
           <<Struct("sections"),
             Struct(CHOOSE sec \in {"profiles", "experience", "skills"} :
                       path = "sections." \o sec \o ".columns"),
             Field("columns")>>
      [] path = "sections.profiles.items[].url.href" ->
           <<Struct("sections"), Struct("profiles"), List("items"), Struct("url"), Field("href")>>
      [] path = "sections.experience.items[].url.href" ->
           <<Struct("sections"), Struct("experience"), List("items"), Struct("url"), Field("href")>>
      [] path = "sections.skills.items[].level" ->
           <<Struct("sections"), Struct("skills"), List("items"), Field("level")>>
      [] OTHER ->
           <<Struct("metadata"), Struct("theme"),
             Field(CHOOSE field \in ThemeFields : path = "metadata.theme." \o field)>>

\* ValidationErrors::field_errors: the Field entries of this level only.
field_errors(errs) == {e \in errs : Len(Nesting(e.path)) = 1}

field_path(prefix, name) == IF prefix = "" THEN name ELSE prefix \o "." \o name

\* collect_errors, followed along the nesting of one error.
RECURSIVE collect_errors(_, _, _)
collect_errors(nest, idx, prefix) ==
    LET path == field_path(prefix, Head(nest).name) IN
    CASE Head(nest).kind = "Field" -> path
      [] Head(nest).kind = "Struct" -> collect_errors(Tail(nest), idx, path)
      [] Head(nest).kind = "List" ->
           collect_errors(Tail(nest), idx, path \o "[" \o ToString(idx) \o "]")

validation_errors(errs) == {collect_errors(Nesting(e.path), e.index, "") : e \in errs}

\* The lines cmd_validate prints below its heading.
cmd_validate_lines(errs) == {Head(Nesting(e.path)).name : e \in field_errors(errs)}

InitVal ==
    /\ vdoc \in ThemeDocs \cup ExperienceDocs
    /\ surface \in Surfaces
    /\ verrs = {}
    /\ report = NoVal
    /\ vpc = "start"
    /\ IdleNorm /\ IdleParse /\ IdleCli /\ IdleThumb /\ IdleStore /\ IdleRender /\ IdleCustom /\ IdleServe /\ IdleCatalogue /\ IdleLayout /\ IdleIdb /\ IdleDriver

\* resume.validate()
ValidateDoc ==
    /\ vpc = "start"
    /\ verrs' = Validate(vdoc)
    /\ vpc' = IF Validate(vdoc) = {} THEN "valid" ELSE "invalid"
    /\ UNCHANGED <<vdoc, surface, report>>
    /\ UNCHANGED notVal

\* What a surface answers: an HTTP status (or the command's exit code) and
\* the lines of detail.
Answer(status, lines) == [status |-> status, lines |-> lines]

\* The Err arm of each surface: ValidationResponse with valid false,
\* ApiError::with_details, or the command's lines and its error exit.
ReportErrors ==
    /\ vpc = "invalid"
    /\ report' = CASE surface = "http_validate" -> Answer(200, validation_errors(verrs))
                   [] surface = "http_render" ->
                        Answer(status_code("UnprocessableEntity"), validation_errors(verrs))
                   [] surface = "cli_validate" -> Answer(1, cmd_validate_lines(verrs))
    /\ vpc' = "reported"
    /\ UNCHANGED <<vdoc, surface, verrs>>
    /\ UNCHANGED notVal

\* The Ok arm: valid true, the rendered document or the renderer's failure,
\* or "Valid resume".
Accept ==
    /\ vpc = "valid"
    /\ \E status \in CASE surface = "http_validate" -> {200}
                       [] surface = "http_render" -> {200, status_code("InternalError")}
                       [] surface = "cli_validate" -> {0} :
          report' = Answer(status, {})
    /\ vpc' = "accepted"
    /\ UNCHANGED <<vdoc, surface, verrs>>
    /\ UNCHANGED notVal

NextVal == ValidateDoc \/ ReportErrors \/ Accept

SpecVal == InitVal /\ [][NextVal]_vars

(***************************************************************************)
(* Claims about validation                                                 *)
(***************************************************************************)
\* ^#?[0-9A-Fa-f]{6}$
HexColorPattern(c) ==
    LET digits == IF c # <<>> /\ Head(c) = "#" THEN Tail(c) ELSE c IN
    Len(digits) = 6 /\ \A i \in 1..6 : digits[i] \in HexDigits

ThemeAccepted(field) == Err("metadata.theme." \o field, 0) \notin verrs

\* C12: validation accepts a theme colour (background, text or primary)
\* exactly when it is empty or an optional single "#" followed by exactly six
\* hexadecimal digits.
C12_ColourAcceptedIffPattern ==
    vpc \notin {"idle", "start"} =>
        \A field \in ThemeFields :
            ThemeAccepted(field) <=>
                (vdoc.theme[field] = <<>> \/ HexColorPattern(vdoc.theme[field]))

\* A colour with two leading "#" has been validated and accepted.
C12_DoubleHashAccepted ==
    /\ vpc = "accepted"
    /\ vdoc.theme.primary = <<"#", "#", "F", "F", "F", "F", "F", "F">>

(***************************************************************************)
(* Further claims about the normaliser                                     *)
(***************************************************************************)
\* C13: a field value without "<" is embedded as the trimmed input with each
\* engine-special character preceded by a backslash, and nothing else changed.
C13_PlainTextOnlyEscaped ==
    (npc \in {"once", "twice"} /\ ~ContainsLt(html)) => typst = escape_typst(Trim(html))

HasNewlineRun(s) ==
    \E i \in 1..Len(s) - 2 : s[i] = "\n" /\ s[i + 1] = "\n" /\ s[i + 2] = "\n"

Trimmed(s) == s = <<>> \/ (s[1] \notin Whitespace /\ s[Len(s)] \notin Whitespace)

\* C14 as stated: for every input the output has no run of three or more
\* newlines and no leading or trailing whitespace.
C14_Cleaned ==
    npc \in {"once", "twice"} => (~HasNewlineRun(typst) /\ Trimmed(typst))

\* C14 amended: the output never has leading or trailing whitespace, and it
\* has no run of three or more newlines whenever the sanitised input holds a
\* "<", that is, whenever the field goes through the parser.
C14_CleanedWhenParsed ==
    npc \in {"once", "twice"} =>
        /\ Trimmed(typst)
        /\ ContainsLt(sanitize_html(html)) => ~HasNewlineRun(typst)

\* A parsed field whose nodes wrote three newlines in a row has been converted.
C14_Witness ==
    /\ npc = "once"
    /\ ContainsLt(sanitize_html(html))
    /\ HasNewlineRun(process_node(Trim(sanitize_html(html)), <<Frame("root", FALSE)>>))
    /\ typst # <<>>

(***************************************************************************)
(* Further claims about the thumbnail endpoint                             *)
(***************************************************************************)
\* C18: a thumbnail request whose id is not a slug of the catalogue is
\* answered with status 404.
C18_UnknownIdNotFound ==
    \A r \in DOMAIN req :
        (req[r].pc = "done" /\ req[r].id \notin TEMPLATES) => req[r].response.status = 404

(***************************************************************************)
(* Further claims about validation                                         *)
(***************************************************************************)
\* The full path of a violated rule: the rule's path with the index of the
\* offending item written into its brackets.
FullPath(e) ==
    CASE e.path = "sections.profiles.items[].url.href" ->
           "sections.profiles.items[" \o ToString(e.index) \o "].url.href"
      [] e.path = "sections.experience.items[].url.href" ->
           "sections.experience.items[" \o ToString(e.index) \o "].url.href"
      [] e.path = "sections.skills.items[].level" ->
           "sections.skills.items[" \o ToString(e.index) \o "].level"
      [] OTHER -> e.path

\* C19: on every surface that reports a failed validation, each violated rule
\* is reported with the full path of the offending field, list indices
\* included.
C19_FullPathsReported ==
    vpc = "reported" => \A e \in verrs : FullPath(e) \in report.lines

\* The server's surfaces do report the path of the fourth experience item.
C19_ServerReportsFourthItem ==
    /\ vpc = "reported"
    /\ surface = "http_render"
    /\ "sections.experience.items[3].url.href" \in report.lines

(***************************************************************************)
(* The renderer: generate_source, compile, render_pdf, render_preview      *)
(***************************************************************************)
MaxPages == 2

MaxMargin == 100

MinFontSize == 6

MaxFontSize == 72

\* TypstRenderer::new and TypstRenderer::with_template
new == "rhyhorn"

with_template(template) == template

Renderers == {new} \cup {with_template(t) : t \in {"rhyhorn", "onyx", "custom"}}

\* metadata.template, page.margin and typography.font.size of the documents
\* rendered: the defaults, the limits and their neighbours.
RenderDocs ==
    [template : {"rhyhorn", "onyx", "unknown"},
     margin : {0, 18, MaxMargin, MaxMargin + 1, 150},
     font_size : {2, MinFontSize - 1, MinFontSize, 14, MaxFontSize, MaxFontSize + 1}]

RenderOps ==
    {[name |-> "generate_source", page |-> 0], [name |-> "render_pdf", page |-> 0]}
    \cup [name : {"render_preview"}, page : 0..MaxPages]

RenderErr(kind, message) == [ok |-> FALSE, kind |-> kind, message |-> message]

\* The bounds generate_source enforces before it writes the driver.
config_error_inclusive(margin, font_size) ==
    IF margin >= MaxMargin
    THEN RenderErr("InvalidConfig",
                   "Margin " \o ToString(margin) \o "pt exceeds maximum of 100pt")
    ELSE IF font_size \notin MinFontSize..MaxFontSize
    THEN RenderErr("InvalidConfig",
                   "Font size " \o ToString(font_size) \o "pt is outside the allowed range of 6-72pt")
    ELSE NoVal

config_error(margin, font_size) ==
    IF margin > MaxMargin
    THEN RenderErr("InvalidConfig",
                   "Margin " \o ToString(margin) \o "pt exceeds maximum of 100pt")
    ELSE IF font_size \notin MinFontSize..MaxFontSize
    THEN RenderErr("InvalidConfig",
                   "Font size " \o ToString(font_size) \o "pt is outside the allowed range of 6-72pt")
    ELSE NoVal

\* The template the driver imports.
template_name_rhyhorn(default_template, template) ==
    IF template \in TEMPLATES THEN template ELSE "rhyhorn"

template_name(default_template, template) ==
    IF template \in TEMPLATES THEN template ELSE default_template

\* The driver, as the values written into its text.
generate_source(default_template, resume) ==
    IF config_error(resume.margin, resume.font_size) # NoVal
    THEN config_error(resume.margin, resume.font_size)
    ELSE Ok([import |-> "templates/" \o template_name(default_template, resume.template) \o ".typ",
             margin |-> resume.margin,
             font_size |-> resume.font_size])

\* document.pages.get(page), pages indexed from 0
pages_get_from_one(count, page) == page \in 1..count

pages_get(count, page) == page \in 0..count - 1

InitRender ==
    /\ renderer \in Renderers
    /\ rdoc \in RenderDocs
    /\ rop \in RenderOps
    /\ source = NoVal
    /\ pages = NoVal
    /\ engineCalls = 0
    /\ rresult = NoVal
    /\ rpc = "start"
    /\ IdleNorm /\ IdleParse /\ IdleCli /\ IdleThumb /\ IdleStore /\ IdleVal /\ IdleCustom /\ IdleServe /\ IdleCatalogue /\ IdleLayout /\ IdleIdb /\ IdleDriver

\* generate_source, called directly or as the first step of compile
GenerateSource ==
    /\ rpc = "start"
    /\ LET r == generate_source(renderer, rdoc) IN
       IF ~r.ok THEN /\ rresult' = r
                     /\ rpc' = "done"
                     /\ UNCHANGED source
       ELSE /\ source' = r.val
            /\ IF rop.name = "generate_source"
               THEN rresult' = r /\ rpc' = "done"
               ELSE UNCHANGED rresult /\ rpc' = "generated"
    /\ UNCHANGED <<renderer, rdoc, rop, pages, engineCalls>>
    /\ UNCHANGED notRender

\* typst::compile on the world holding the driver: a document of some pages,
\* or the engine's errors.
Compile ==
    /\ rpc = "generated"
    /\ engineCalls' = engineCalls + 1
    /\ \/ \E count \in 1..MaxPages :
            /\ pages' = [t |-> "document", count |-> count]
            /\ rpc' = "compiled"
            /\ UNCHANGED rresult
       \/ /\ rresult' = RenderErr("RenderFailed", "Typst compilation failed")
          /\ rpc' = "done"
          /\ UNCHANGED pages
    /\ UNCHANGED <<renderer, rdoc, rop, source>>
    /\ UNCHANGED notRender

\* render_pdf after compile: typst_pdf::pdf
ExportPdf ==
    /\ rpc = "compiled"
    /\ rop.name = "render_pdf"
    /\ rresult' \in {Ok("pdf"), RenderErr("RenderFailed", "PDF generation failed")}
    /\ rpc' = "done"
    /\ UNCHANGED <<renderer, rdoc, rop, source, pages, engineCalls>>
    /\ UNCHANGED notRender

\* render_preview after compile: the page lookup, the raster, the encoding
ExportPreview ==
    /\ rpc = "compiled"
    /\ rop.name = "render_preview"
    /\ IF ~pages_get(pages.count, rop.page)
       THEN rresult' = RenderErr("RenderFailed",
                                 "Page " \o ToString(rop.page) \o " not found")
       ELSE rresult' \in {Ok("png"), RenderErr("RenderFailed", "PNG encoding failed")}
    /\ rpc' = "done"
    /\ UNCHANGED <<renderer, rdoc, rop, source, pages, engineCalls>>
    /\ UNCHANGED notRender

NextRender == GenerateSource \/ Compile \/ ExportPdf \/ ExportPreview

SpecRender == InitRender /\ [][NextRender]_vars

(***************************************************************************)
(* Claims about the renderer                                               *)
(***************************************************************************)
\* C15 as stated: for every renderer and every document whose template is not
\* in the catalogue, the driver imports templates/rhyhorn.typ.
C15_FallbackIsRhyhorn ==
    (source # NoVal /\ rdoc.template \notin TEMPLATES) =>
        source.import = "templates/rhyhorn.typ"

\* C15 amended: for a document whose template is not in the catalogue the
\* driver imports the template the renderer was built with, which is rhyhorn
\* for a renderer built by new.
C15_FallbackIsRendererDefault ==
    (source # NoVal /\ rdoc.template \notin TEMPLATES) =>
        /\ source.import = "templates/" \o renderer \o ".typ"
        /\ renderer = new => source.import = "templates/rhyhorn.typ"

\* A renderer built with another template has written the driver of a
\* document whose template is unknown.
C15_Witness ==
    /\ source # NoVal
    /\ rdoc.template = "unknown"
    /\ renderer = "onyx"
    /\ source.import = "templates/onyx.typ"

OutOfBounds == rdoc.margin > 100 \/ rdoc.font_size < 6 \/ rdoc.font_size > 72

InvalidConfig == rresult # NoVal /\ ~rresult.ok /\ rresult.kind = "InvalidConfig"

\* C16: generate_source fails with InvalidConfig exactly when the margin is
\* above 100 or the font size is outside 6..72, and succeeds otherwise;
\* render_pdf and render_preview fail the same way, before the engine is
\* invoked.
C16_ConfigRejectedBeforeEngine ==
    /\ rpc = "done" => (InvalidConfig <=> OutOfBounds)
    /\ (rpc = "done" /\ rop.name = "generate_source" /\ ~OutOfBounds) => rresult.ok
    /\ OutOfBounds => engineCalls = 0
    /\ (rpc \notin {"idle", "start"} /\ OutOfBounds) => (rpc = "done" /\ source = NoVal)

\* render_pdf was called with a margin of 150 and failed without compiling.
C16_Witness ==
    /\ rpc = "done"
    /\ rop.name = "render_pdf"
    /\ rdoc.margin = 150
    /\ InvalidConfig
    /\ engineCalls = 0

\* C17: render_preview returns PNG bytes only if the compiled document has a
\* page of 0-based index n, and for every other n fails with RenderFailed
\* "Page n not found".
C17_PreviewPageLookup ==
    (rpc = "done" /\ rop.name = "render_preview") =>
        /\ rresult.ok => (pages # NoVal /\ rop.page < pages.count /\ rresult.val = "png")
        /\ (pages # NoVal /\ rop.page >= pages.count) =>
              rresult = RenderErr("RenderFailed",
                                  "Page " \o ToString(rop.page) \o " not found")

\* The page just past the last one was asked for and not found.
C17_Witness ==
    /\ rpc = "done"
    /\ rop.name = "render_preview"
    /\ pages # NoVal
    /\ rop.page = pages.count
    /\ rresult.message = "Page " \o ToString(rop.page) \o " not found"

(***************************************************************************)
(* Custom sections: a HashMap filled key by key and written to the         *)
(* serialised document and to the driver.                                  *)
(***************************************************************************)
MaxCustom == 3

CustomKeys == {"awards2", "hobbies", "patents", "talks"}

Outputs == {"json", "driver"}

\* The orders in which a HashMap of these keys can be iterated: the order
\* follows the hashes of the keys under the map's random state, so every
\* order of the keys is possible.
IterationOrders(map) ==
    {o \in [1..Cardinality(DOMAIN map) -> DOMAIN map] :
        \A i, j \in DOMAIN o : i # j => o[i] # o[j]}

InitCustom ==
    /\ custom = <<>>
    /\ insertOrder = <<>>
    /\ written = [out \in Outputs |-> NoVal]
    /\ IdleNorm /\ IdleParse /\ IdleCli /\ IdleThumb /\ IdleStore /\ IdleVal /\ IdleRender /\ IdleServe /\ IdleCatalogue /\ IdleLayout /\ IdleIdb /\ IdleDriver

\* custom.insert(key, section), while the document is built
InsertSection(key) ==
    /\ \A out \in Outputs : written[out] = NoVal
    /\ Cardinality(DOMAIN custom) < MaxCustom
    /\ custom' = [k \in DOMAIN custom \cup {key} |-> k]
    /\ insertOrder' = IF key \in DOMAIN custom THEN insertOrder ELSE Append(insertOrder, key)
    /\ UNCHANGED written
    /\ UNCHANGED notCustom

\* serde_json::to_string on the document: the map is written entry by entry
\* as the HashMap iterates.
Serialize(out) ==
    /\ written[out] = NoVal
    /\ \E order \in IterationOrders(custom) :
          written' = [written EXCEPT ![out] = [t |-> "keys", keys |-> order]]
    /\ UNCHANGED <<custom, insertOrder>>
    /\ UNCHANGED notCustom

NextCustom ==
    \/ \E key \in CustomKeys : InsertSection(key)
    \/ \E out \in Outputs : Serialize(out)

SpecCustom == InitCustom /\ [][NextCustom]_vars

\* C20: on each output the custom sections are written in the order in which
\* their keys were inserted.
C20_WrittenInInsertionOrder ==
    written # NoVal =>
        \A out \in Outputs : written[out] # NoVal => written[out].keys = insertOrder

(***************************************************************************)
(* Further claims about the thumbnail cache                                *)
(***************************************************************************)
\* C26: at every moment, whatever mix of requests is under way, the keys of
\* the thumbnail cache are slugs of the catalogue, so the cache holds at
\* most 12 entries.
C26_CacheKeysInCatalogue ==
    /\ DOMAIN thumbnail_cache \subseteq TEMPLATES
    /\ Cardinality(DOMAIN thumbnail_cache) <= 12

\* A request for an unknown slug and a request whose render failed have both
\* finished, and the cache holds a thumbnail.
C26_Witness ==
    /\ \E r \in Requests : req[r].pc = "done" /\ req[r].id \notin TEMPLATES
    /\ \E r \in Requests : req[r].pc = "done" /\ req[r].missed /\ req[r].png = None
    /\ thumbnail_cache # <<>>

\* C30: a request that starts after a thumbnail for its slug was inserted
\* never reaches the renderer and is answered with bytes inserted for that
\* slug.
C30_CachedAnsweredFromCache ==
    \A r \in Requests :
        req[r].cachedAtStart =>
            /\ ~req[r].missed
            /\ req[r].pc \in {"lock_lookup", "lookup", "done"}
            /\ req[r].pc = "done" =>
                  /\ req[r].response.status = 200
                  /\ \E i \in DOMAIN inserted :
                        /\ inserted[i].id = req[r].id
                        /\ inserted[i].png = req[r].response.body

\* A request that started after the insert has been answered while another
\* request for the same slug had rendered different bytes.
C30_Witness ==
    \E r \in Requests :
        /\ req[r].cachedAtStart
        /\ req[r].pc = "done"
        /\ req[r].response.status = 200
        /\ Len(InsertsOf(req[r].id)) >= 2

(***************************************************************************)
(* Further claims about the persistence operations                         *)
(***************************************************************************)
\* C27: get, exists and list leave the map as they found it, and so does a
\* delete or a get that fails with NotFound: every stored id keeps its
\* document.
C27_ReadsAndFailuresChangeNothing ==
    /\ \A i \in DOMAIN log :
          (log[i].op \in ReadOps \/ log[i].result = Fail("NotFound")) =>
              log[i].after = log[i].before
    /\ \A c \in Clients :
          (calls[c].pc \in {"held", "cloning"} /\ calls[c].op \in ReadOps) =>
              data = calls[c].before

\* A delete of an id that is not stored failed while another id was stored.
C27_Witness ==
    \E i \in DOMAIN log :
        /\ log[i].op = "delete"
        /\ log[i].result = Fail("NotFound")
        /\ log[i].before # <<>>

(***************************************************************************)
(* Further claims about the social-export adapter                          *)
(***************************************************************************)
\* C22: the adapter sets basics.location to the row's geo_location when that
\* column has a non-empty value, and otherwise to the value of the row's
\* location column.
C22_LocationPrefersGeo ==
    (adapter = "linkedin" /\ ppc \in {"parsed", "checked"} /\ typed.profile.t = "row") =>
        doc.basics.location =
            (IF StrOr(typed.profile.geo_location, <<>>) # <<>>
             THEN typed.profile.geo_location.s
             ELSE StrOr(typed.profile.location, <<>>))

(***************************************************************************)
(* The rendering surfaces: the server's render_pdf and render_preview and  *)
(* the commands cmd_render and cmd_preview.  Each deserialises the         *)
(* document, applies the template option, validates and then renders.      *)
(***************************************************************************)
RenderSurfaces == {"http_pdf", "http_preview", "cli_render", "cli_preview"}

\* The document with its metadata.template
WithTemplate(d, template) ==
    [k \in DOMAIN d \cup {"template"} |-> IF k = "template" THEN template ELSE d[k]]

ServedDocs ==
    {WithTemplate([DefaultDoc EXCEPT !.basics.email = e, !.theme.primary = c], t) :
        e \in {<<>>, EmailOk, EmailBad},
        c \in {DefaultDoc.theme.primary, <<"r", "e", "d">>},
        t \in {"rhyhorn", "unknown"}}

TemplateOptions == {None, "onyx", "other"}

InitServe ==
    /\ sreq \in [surface : RenderSurfaces, resume : ServedDocs, template : TemplateOptions]
    /\ sdoc = NoVal
    /\ validated = NoVal
    /\ rendered = <<>>
    /\ sresp = 0
    /\ spc = "start"
    /\ IdleNorm /\ IdleParse /\ IdleCli /\ IdleThumb /\ IdleStore /\ IdleVal /\ IdleRender /\ IdleCustom /\ IdleCatalogue /\ IdleLayout /\ IdleIdb /\ IdleDriver

\* The document is deserialised and the template option, if given, written
\* into metadata.template.
ApplyTemplate ==
    /\ spc = "start"
    /\ sdoc' = IF sreq.template = None THEN sreq.resume
               ELSE [sreq.resume EXCEPT !.template = sreq.template]
    /\ spc' = "templated"
    /\ UNCHANGED <<sreq, validated, rendered, sresp>>
    /\ UNCHANGED notServe

IsHttp(s) == s \in {"http_pdf", "http_preview"}

ValidateSkipped ==
    /\ spc = "templated"
    /\ spc' = "valid"
    /\ UNCHANGED <<sreq, sdoc, validated, rendered, sresp>>
    /\ UNCHANGED notServe

\* resume.validate(), its error returned with ? as ApiError::with_details or
\* as the command's failure
ValidateRequest ==
    /\ spc = "templated"
    /\ IF Validate(sdoc) = {}
       THEN /\ validated' = sdoc
            /\ spc' = "valid"
            /\ UNCHANGED sresp
       ELSE /\ sresp' = IF IsHttp(sreq.surface) THEN status_code("UnprocessableEntity") ELSE 1
            /\ spc' = "done"
            /\ UNCHANGED validated
    /\ UNCHANGED <<sreq, sdoc, rendered>>
    /\ UNCHANGED notServe

\* TypstRenderer::new() and render_pdf or render_preview on the document; a
\* renderer error becomes ApiError::internal or the command's failure.
InvokeRenderer ==
    /\ spc = "valid"
    /\ rendered' = Append(rendered, sdoc)
    /\ \E ok \in BOOLEAN :
          sresp' = IF IsHttp(sreq.surface)
                   THEN (IF ok THEN 200 ELSE status_code("InternalError"))
                   ELSE (IF ok THEN 0 ELSE 1)
    /\ spc' = "done"
    /\ UNCHANGED <<sreq, sdoc, validated>>
    /\ UNCHANGED notServe

NextServe == ApplyTemplate \/ ValidateRequest \/ InvokeRenderer

SpecServe == InitServe /\ [][NextServe]_vars

\* The document of the request with the template option applied
Requested ==
    IF sreq.template = None THEN sreq.resume
    ELSE [sreq.resume EXCEPT !.template = sreq.template]

\* C25: on each rendering surface the renderer is invoked only with a
\* document that validation has accepted, the template option already
\* applied; a document that fails validation is rejected and nothing is
\* rendered.
C25_RenderOnlyAfterValidation ==
    /\ rendered # <<>> =>
          /\ Len(rendered) = 1
          /\ validated # NoVal
          /\ rendered[1] = validated
          /\ rendered[1] = Requested
          /\ Validate(rendered[1]) = {}
    /\ (spc # "idle" /\ Validate(Requested) # {}) =>
          /\ rendered = <<>>
          /\ spc = "done" => sresp \in {1, 422}

\* A valid document with a template option has been rendered, and so with
\* that template.
C25_Witness ==
    /\ spc = "done"
    /\ sreq.template = "onyx"
    /\ sreq.resume.template = "unknown"
    /\ rendered # <<>>
    /\ rendered[1].template = "onyx"

(***************************************************************************)
(* The template catalogue as the renderer holds it and as the browser      *)
(* binding repeats it                                                      *)
(***************************************************************************)
TemplateTheme(background, text, primary) ==
    [background |-> background, text |-> text, primary |-> primary]

\* rustume_render::get_template_theme
get_template_theme(template) ==
    CASE template = "rhyhorn" -> TemplateTheme("#ffffff", "#000000", "#65a30d")
      [] template = "azurill" -> TemplateTheme("#ffffff", "#1f2937", "#d97706")
      [] template = "pikachu" -> TemplateTheme("#ffffff", "#1c1917", "#ca8a04")
      [] template = "nosepass" -> TemplateTheme("#ffffff", "#1f2937", "#3b82f6")
      [] template = "bronzor" -> TemplateTheme("#ffffff", "#1f2937", "#0891b2")
      [] template = "chikorita" -> TemplateTheme("#ffffff", "#166534", "#16a34a")
      [] template = "ditto" -> TemplateTheme("#ffffff", "#1f2937", "#0891b2")
      [] template = "gengar" -> TemplateTheme("#ffffff", "#1f2937", "#67b8c8")
      [] template = "glalie" -> TemplateTheme("#ffffff", "#0f172a", "#14b8a6")
      [] template = "kakuna" -> TemplateTheme("#ffffff", "#422006", "#78716c")
      [] template = "leafish" -> TemplateTheme("#ffffff", "#1f2937", "#9f1239")
      [] template = "onyx" -> TemplateTheme("#ffffff", "#111827", "#dc2626")
      [] OTHER -> TemplateTheme("#ffffff", "#000000", "#65a30d")

\* The binding's list_templates
list_templates == <<"rhyhorn", "azurill", "pikachu", "nosepass">>

\* The binding's get_template_theme_js
get_template_theme_js(template) ==
    CASE template = "rhyhorn" -> TemplateTheme("#ffffff", "#000000", "#dc2626")
      [] template = "azurill" -> TemplateTheme("#ffffff", "#000000", "#d97706")
      [] template = "pikachu" -> TemplateTheme("#ffffff", "#000000", "#ca8a04")
      [] template = "nosepass" -> TemplateTheme("#ffffff", "#000000", "#3b82f6")
      [] OTHER -> TemplateTheme("#ffffff", "#000000", "#dc2626")

AskedSlugs == TEMPLATES \cup {"unknown", "Rhyhorn", ""}

InitCatalogue ==
    /\ slug \in AskedSlugs
    /\ listed = NoVal
    /\ jsTheme = NoVal
    /\ engineTheme = NoVal
    /\ IdleNorm /\ IdleParse /\ IdleCli /\ IdleThumb /\ IdleStore /\ IdleVal /\ IdleRender /\ IdleCustom /\ IdleServe /\ IdleLayout /\ IdleIdb /\ IdleDriver

ListTemplates ==
    /\ listed = NoVal
    /\ listed' = [slugs |-> list_templates]
    /\ UNCHANGED <<slug, jsTheme, engineTheme>>
    /\ UNCHANGED notCatalogue

ThemeFromBinding ==
    /\ jsTheme = NoVal
    /\ jsTheme' = get_template_theme_js(slug)
    /\ UNCHANGED <<slug, listed, engineTheme>>
    /\ UNCHANGED notCatalogue

ThemeFromRenderer ==
    /\ engineTheme = NoVal
    /\ engineTheme' = get_template_theme(slug)
    /\ UNCHANGED <<slug, listed, jsTheme>>
    /\ UNCHANGED notCatalogue

NextCatalogue == ListTemplates \/ ThemeFromBinding \/ ThemeFromRenderer

SpecCatalogue == InitCatalogue /\ [][NextCatalogue]_vars

\* C21: the binding lists exactly the slugs of the renderer's TEMPLATES, and
\* for every slug its theme lookup returns the colours of the renderer's
\* catalogue.
C21_SameCatalogue ==
    /\ listed # NoVal => {listed.slugs[i] : i \in DOMAIN listed.slugs} = TEMPLATES
    /\ (slug \in TEMPLATES /\ jsTheme # NoVal /\ engineTheme # NoVal) => jsTheme = engineTheme

(***************************************************************************)
(* Layout manipulation: pages of columns of section ids, addressed by      *)
(* 0-based locators                                                        *)
(***************************************************************************)
MaxColumnLen == 3

SectionIds == {"a", "b", "c"}

LayoutLocator(page, column, section) == [page |-> page, column |-> column, section |-> section]

\* One column of up to MaxColumnLen ids, alone, beside a short column, or
\* followed by a page with a short column; and the layouts without a column.
Layouts ==
    {<<>>, << <<>> >>}
    \cup {<< <<col>> >> : col \in SeqsUpTo(SectionIds, MaxColumnLen)}
    \cup {<< <<col, short>> >> :
            col \in SeqsUpTo(SectionIds, MaxColumnLen), short \in {<<>>, <<"a">>}}
    \cup {<< <<col>>, <<short>> >> :
            col \in SeqsUpTo(SectionIds, MaxColumnLen), short \in {<<>>, <<"a">>}}

Locators(maxPage, maxColumn, maxSection) ==
    {LayoutLocator(p, c, x) : p \in 0..maxPage, c \in 0..maxColumn, x \in 0..maxSection}

\* Vec::remove and Vec::insert at a 0-based index
VecRemove(v, i) == SubSeq(v, 1, i) \o SubSeq(v, i + 2, Len(v))

VecInsert(v, i, x) == SubSeq(v, 1, i) \o <<x>> \o SubSeq(v, i + 1, Len(v))

\* layout.get(page).and_then(|p| p.get(column)).and_then(|c| c.get(section))
Addresses(loc, l) ==
    /\ loc.page < Len(l)
    /\ loc.column < Len(l[loc.page + 1])
    /\ loc.section < Len(l[loc.page + 1][loc.column + 1])

\* while v.len() <= n { v.push(Vec::new()) }
RECURSIVE PushUntil(_, _)
PushUntil(v, n) == IF Len(v) <= n THEN PushUntil(Append(v, <<>>), n) ELSE v

LayoutWith(l, loc, item, insert_idx) ==
    LET paged == PushUntil(l, loc.page)
        padded == [paged EXCEPT ![loc.page + 1] = PushUntil(@, loc.column)]
        idx == Min(insert_idx, Len(padded[loc.page + 1][loc.column + 1]))
    IN  [padded EXCEPT ![loc.page + 1][loc.column + 1] = VecInsert(@, idx, item)]

move_item_unadjusted(cur, tgt, l) ==
    IF ~Addresses(cur, l) THEN l
    ELSE LET item == l[cur.page + 1][cur.column + 1][cur.section + 1]
             removed == [l EXCEPT ![cur.page + 1][cur.column + 1] = VecRemove(@, cur.section)]
         IN  LayoutWith(removed, tgt, item, tgt.section)

move_item_copying(cur, tgt, l) ==
    IF ~Addresses(cur, l) THEN l
    ELSE LET item == l[cur.page + 1][cur.column + 1][cur.section + 1]
             adjusted_target_section ==
                 IF cur.page = tgt.page /\ cur.column = tgt.column /\ cur.section < tgt.section
                 THEN tgt.section - 1
                 ELSE tgt.section
         IN  LayoutWith(l, tgt, item, adjusted_target_section)

move_item_in_layout(cur, tgt, l) ==
    IF ~Addresses(cur, l) THEN l
    ELSE LET item == l[cur.page + 1][cur.column + 1][cur.section + 1]
             removed == [l EXCEPT ![cur.page + 1][cur.column + 1] = VecRemove(@, cur.section)]
             adjusted_target_section ==
                 IF cur.page = tgt.page /\ cur.column = tgt.column /\ cur.section < tgt.section
                 THEN tgt.section - 1
                 ELSE tgt.section
         IN  LayoutWith(removed, tgt, item, adjusted_target_section)

InitLayout ==
    /\ layout \in Layouts
    /\ current \in Locators(1, 1, MaxColumnLen)
    /\ target \in Locators(2, 1, MaxColumnLen + 1)
    /\ moved = NoVal
    /\ IdleNorm /\ IdleParse /\ IdleCli /\ IdleThumb /\ IdleStore /\ IdleVal /\ IdleRender /\ IdleCustom /\ IdleServe /\ IdleCatalogue /\ IdleIdb /\ IdleDriver

MoveItem ==
    /\ moved = NoVal
    /\ moved' = [t |-> "layout", value |-> move_item_in_layout(current, target, layout)]
    /\ UNCHANGED <<layout, current, target>>
    /\ UNCHANGED notLayout

NextLayout == MoveItem

SpecLayout == InitLayout /\ [][NextLayout]_vars

(***************************************************************************)
(* Claims about the layout                                                 *)
(***************************************************************************)
\* A move forward within one column, of an item that is there
ForwardInColumn ==
    /\ moved # NoVal
    /\ Addresses(current, layout)
    /\ current.page = target.page /\ current.column = target.column
    /\ current.section < target.section

ColumnBefore == layout[current.page + 1][current.column + 1]

ColumnAfter == moved.value[current.page + 1][current.column + 1]

\* The column holds the item at 0-based index k and is otherwise the old
\* column without the moved item, in the old order.
ReinsertedAt(k) ==
    /\ Len(ColumnAfter) = Len(ColumnBefore)
    /\ k < Len(ColumnAfter)
    /\ ColumnAfter[k + 1] = ColumnBefore[current.section + 1]
    /\ VecRemove(ColumnAfter, k) = VecRemove(ColumnBefore, current.section)

\* C24 as stated: moving the item at index i to target index j > i of the same
\* column yields the column with the item removed from i and re-inserted at
\* index j-1, the other elements keeping their order.
C24_ForwardMoveLandsBeforeTarget ==
    ForwardInColumn => ReinsertedAt(target.section - 1)

\* C24 amended: the item is re-inserted at index j-1, or at the end of the
\* column when j is beyond the column's length.
C24_ForwardMoveClamped ==
    ForwardInColumn => ReinsertedAt(Min(target.section - 1, Len(ColumnBefore) - 1))

\* The first of three items was moved to index 2 and lies between the others.
C24_Witness ==
    /\ ForwardInColumn
    /\ ColumnBefore = <<"a", "b", "c">>
    /\ current.section = 0 /\ target.section = 2
    /\ ColumnAfter = <<"b", "a", "c">>

\* How often id occurs in layout l
RECURSIVE SumOver(_, _)
SumOver(f, n) == IF n = 0 THEN 0 ELSE f[n] + SumOver(f, n - 1)

Occurrences(l, id) ==
    LET inColumn(col) == Cardinality({i \in DOMAIN col : col[i] = id})
        inPage(pg) == SumOver([c \in DOMAIN pg |-> inColumn(pg[c])], Len(pg))
    IN  SumOver([p \in DOMAIN l |-> inPage(l[p])], Len(l))

\* C28: the returned layout holds the same multiset of section ids as the
\* input, and equals the input when current addresses no item.
C28_SameSections ==
    moved # NoVal =>
        /\ \A id \in SectionIds : Occurrences(moved.value, id) = Occurrences(layout, id)
        /\ \A p \in DOMAIN moved.value :
              \A c \in DOMAIN moved.value[p] : \A i \in DOMAIN moved.value[p][c] :
                  moved.value[p][c][i] \in SectionIds
        /\ ~Addresses(current, layout) => moved.value = layout

\* An item that occurs twice was moved to a page the layout did not have.
C28_Witness ==
    /\ moved # NoVal
    /\ Addresses(current, layout)
    /\ Occurrences(layout, "a") = 2
    /\ layout[current.page + 1][current.column + 1][current.section + 1] = "a"
    /\ target.page >= Len(layout)
    /\ Len(moved.value) > Len(layout)

(***************************************************************************)
(* IndexedDbStorage: every call opens the database, creates one            *)
(* transaction on the store and issues its requests at once; the browser   *)
(* starts the transaction when its mode allows, runs its requests in the   *)
(* order issued, and the call resumes on the results it awaits.            *)
(***************************************************************************)
MaxTx == 3

TxIds == 1..MaxTx

IdbOps ==
    [op : {"save"}, id : Ids, value : Versions]
    \cup [op : {"delete", "exists"}, id : Ids, value : {None}]

NoTx ==
    [pc |-> "new", op |-> None, id |-> None, value |-> None, requests |-> <<>>,
     atGet |-> NoVal, atDelete |-> NoVal, result |-> NoVal]

\* get_store(&db, readonly)
Readonly(op) == op \in {"exists", "get", "list"}

\* The transactions started and not yet finished
Live == {i \in TxIds : tx[i].pc = "active"}

Stored(map) == [t |-> "store", map |-> map]

InitIdb ==
    /\ idb = <<>>
    /\ tx = [i \in TxIds |-> NoTx]
    /\ IdleNorm /\ IdleParse /\ IdleCli /\ IdleThumb /\ IdleStore /\ IdleVal /\ IdleRender /\ IdleCustom /\ IdleServe /\ IdleCatalogue /\ IdleLayout /\ IdleDriver

\* A call is made and awaits open_db.
IdbCall(i, call) ==
    /\ tx[i].pc = "new"
    /\ tx' = [tx EXCEPT ![i] = [@ EXCEPT !.pc = "opening", !.op = call.op,
                                        !.id = call.id, !.value = call.value]]
    /\ UNCHANGED idb
    /\ UNCHANGED notIdb

\* open_db fails: the call returns StorageError::Internal.
OpenFails(i) ==
    /\ tx[i].pc = "opening"
    /\ tx' = [tx EXCEPT ![i].pc = "done", ![i].result = Fail("Internal")]
    /\ UNCHANGED idb
    /\ UNCHANGED notIdb

\* open_db resolves; get_store creates the transaction and the call issues
\* its requests before it awaits any of them.
IssueRequests(i) ==
    /\ tx[i].pc = "opening"
    /\ tx' = [tx EXCEPT ![i].pc = "created",
                        ![i].requests = CASE tx[i].op = "save" -> <<"put">>
                                          [] tx[i].op = "delete" -> <<"get", "delete">>
                                          [] tx[i].op = "exists" -> <<"get">>]
    /\ UNCHANGED idb
    /\ UNCHANGED notIdb

BeginTransactionShared(i) ==
    /\ tx[i].pc = "created"
    /\ tx' = [tx EXCEPT ![i].pc = "active"]
    /\ UNCHANGED idb
    /\ UNCHANGED notIdb

\* The browser starts the transaction: a read-write one when no other
\* transaction on the store is live, a read-only one when no read-write one
\* is.
BeginTransaction(i) ==
    /\ tx[i].pc = "created"
    /\ IF Readonly(tx[i].op) THEN \A j \in Live : Readonly(tx[j].op) ELSE Live = {}
    /\ tx' = [tx EXCEPT ![i].pc = "active"]
    /\ UNCHANGED idb
    /\ UNCHANGED notIdb

\* The next request of a live transaction runs.  History: what the store
\* held when the get and when the delete of the call ran.
RunRequest(i) ==
    /\ tx[i].pc = "active"
    /\ tx[i].requests # <<>>
    /\ LET request == Head(tx[i].requests)
           id == tx[i].id
       IN  /\ idb' = CASE request = "put" ->
                            [x \in DOMAIN idb \cup {id} |-> IF x = id THEN tx[i].value ELSE idb[x]]
                       [] request = "delete" -> [x \in DOMAIN idb \ {id} |-> idb[x]]
                       [] request = "get" -> idb
           /\ tx' = [tx EXCEPT ![i].requests = Tail(@),
                               ![i].atGet = IF request = "get" THEN Stored(idb) ELSE @,
                               ![i].atDelete = IF request = "delete" THEN Stored(idb) ELSE @]
    /\ UNCHANGED notIdb

\* delete returns NotFound as soon as its get has come back undefined, its
\* delete request still queued.
ReturnNotFound(i) ==
    /\ tx[i].pc = "active"
    /\ tx[i].op = "delete"
    /\ tx[i].result = NoVal
    /\ tx[i].atGet # NoVal
    /\ tx[i].id \notin DOMAIN tx[i].atGet.map
    /\ tx' = [tx EXCEPT ![i].result = Fail("NotFound")]
    /\ UNCHANGED idb
    /\ UNCHANGED notIdb

\* The last request has run: the call returns, unless it has already, and the
\* transaction completes.
Complete(i) ==
    /\ tx[i].pc = "active"
    /\ tx[i].requests = <<>>
    /\ tx' = [tx EXCEPT ![i].pc = "done",
                        ![i].result =
                            IF @ # NoVal THEN @
                            ELSE CASE tx[i].op = "save" -> Ok(None)
                                   [] tx[i].op = "exists" -> Ok(tx[i].id \in DOMAIN tx[i].atGet.map)
                                   [] tx[i].op = "delete" ->
                                        IF tx[i].id \in DOMAIN tx[i].atGet.map
                                        THEN Ok(None) ELSE Fail("NotFound")]
    /\ UNCHANGED idb
    /\ UNCHANGED notIdb

NextIdb ==
    \/ \E i \in TxIds, call \in IdbOps : IdbCall(i, call)
    \/ \E i \in TxIds : OpenFails(i)
    \/ \E i \in TxIds : IssueRequests(i)
    \/ \E i \in TxIds : BeginTransaction(i)
    \/ \E i \in TxIds : RunRequest(i)
    \/ \E i \in TxIds : ReturnNotFound(i)
    \/ \E i \in TxIds : Complete(i)

SpecIdb == InitIdb /\ [][NextIdb]_vars

\* C23: the existence check and the removal of a delete run in one
\* read-write transaction: the store is the same at the removal as at the
\* check, whatever saves other calls have issued, and the call returns
\* NotFound exactly when the id was absent at the check.
C23_DeleteAtomic ==
    \A i \in TxIds :
        tx[i].op = "delete" =>
            /\ tx[i].atDelete # NoVal => tx[i].atDelete = tx[i].atGet
            /\ (tx[i].result # NoVal /\ tx[i].result # Fail("Internal")) =>
                  /\ tx[i].atGet # NoVal
                  /\ tx[i].result = (IF tx[i].id \in DOMAIN tx[i].atGet.map
                                     THEN Ok(None) ELSE Fail("NotFound"))
            /\ (tx[i].pc = "done" /\ tx[i].atDelete # NoVal) => tx[i].result # NoVal

\* A delete has made its check and not yet its removal while a save of the
\* same id by another call waits for its transaction to start.
C23_Witness ==
    \E i, j \in TxIds :
        /\ tx[i].op = "delete" /\ tx[i].pc = "active"
        /\ tx[i].atGet # NoVal /\ tx[i].atDelete = NoVal
        /\ tx[i].id \in DOMAIN tx[i].atGet.map
        /\ tx[j].op = "save" /\ tx[j].id = tx[i].id /\ tx[j].pc = "created"

(***************************************************************************)
(* The text of the driver: generate_source serialises the document, escapes *)
(* the JSON and the font family, and writes both between double quotes.     *)
(* The text is a sequence of lexemes: the characters of the strings that    *)
(* come from the document, and the fixed pieces of the format string.       *)
(***************************************************************************)
MaxTextLen == 2

DQ == "\""

BS == "\\"

\* The characters of document strings: a quote, a backslash, a letter and a
\* character that would close the call the literal is an argument of.
Chars == {DQ, BS, "a", ")"}

DriverDocs ==
    [name : SeqsUpTo(Chars, MaxTextLen),
     family : SeqsUpTo(Chars, MaxTextLen),
     template : {"onyx", DQ},
     format : {"A4", "Letter"},
     margin : {18},
     font_size : {14, MaxFontSize + 1}]

\* str.replace(from, to), from one character
RECURSIVE replace(_, _, _)
replace(s, from, to) ==
    IF s = <<>> THEN <<>>
    ELSE (IF Head(s) = from THEN to ELSE <<Head(s)>>) \o replace(Tail(s), from, to)

\* A string as serde_json writes it: quoted, with quotes and backslashes
\* escaped.
json_string(s) ==
    <<DQ>> \o replace(replace(s, BS, <<BS, BS>>), DQ, <<BS, DQ>>) \o <<DQ>>

\* serde_json::to_string(&resume), for the two strings of the document
to_string(resume) ==
    <<"{">> \o json_string(<<"n", "a", "m", "e">>) \o <<":">> \o json_string(resume.name)
    \o <<",">> \o json_string(<<"f", "a", "m", "i", "l", "y">>) \o <<":">>
    \o json_string(resume.family) \o <<"}">>

escape_quotes_first(s) == replace(replace(s, DQ, <<BS, DQ>>), BS, <<BS, BS>>)

\* .replace('\\', "\\\\").replace('"', "\\\"")
escape(s) == replace(replace(s, BS, <<BS, BS>>), DQ, <<BS, DQ>>)

\* The format string with its arguments written in
format_source(template, paper, margin, font_family, font_size, resume_json) ==
    <<"#import ", DQ, "templates/", template, ".typ", DQ, ": template",
      "#set page(", "paper: ", DQ, paper, DQ, ",", "margin: ", ToString(margin) \o "pt", ",", ")",
      "#set text(", "font: ", DQ>> \o font_family
    \o <<DQ, ",", "size: ", ToString(font_size) \o "pt", ",", ")",
         "#let data = json.decode(", DQ>> \o resume_json
    \o <<DQ, ")", "#template(data)">>

\* generate_source, with the text of the driver
generate_source_text(default_template, resume) ==
    IF config_error(resume.margin, resume.font_size) # NoVal
    THEN config_error(resume.margin, resume.font_size)
    ELSE Ok(format_source(template_name(default_template, resume.template),
                          IF resume.format = "A4" THEN "a4" ELSE "us-letter",
                          resume.margin,
                          escape(resume.family),
                          resume.font_size,
                          escape(to_string(resume))))

InitDriver ==
    /\ ddoc \in DriverDocs
    /\ driver = NoVal
    /\ IdleNorm /\ IdleParse /\ IdleCli /\ IdleThumb /\ IdleStore /\ IdleVal /\ IdleRender /\ IdleCustom /\ IdleServe /\ IdleCatalogue /\ IdleLayout /\ IdleIdb

\* TypstRenderer::new().generate_source(&resume)
GenerateDriver ==
    /\ driver = NoVal
    /\ driver' = generate_source_text(new, ddoc)
    /\ UNCHANGED ddoc
    /\ UNCHANGED notDriver

NextDriver == GenerateDriver

SpecDriver == InitDriver /\ [][NextDriver]_vars

\* How the engine reads the driver.  A string literal opened before
\* position i ends at the first quote that no backslash escapes; a backslash
\* takes the character after it with it.  0: the text ends inside the literal.
RECURSIVE LiteralEnd(_, _)
LiteralEnd(text, i) ==
    IF i > Len(text) THEN 0
    ELSE IF text[i] = DQ THEN i
    ELSE IF text[i] = BS THEN LiteralEnd(text, i + 2)
    ELSE LiteralEnd(text, i + 1)

\* The value of the literal whose content is text[i..j]
RECURSIVE LiteralValue(_, _, _)
LiteralValue(text, i, j) ==
    IF i > j THEN <<>>
    ELSE IF text[i] = BS /\ i < j THEN <<text[i + 1]>> \o LiteralValue(text, i + 2, j)
    ELSE <<text[i]>> \o LiteralValue(text, i + 1, j)

\* The driver from position i on with every string literal folded into its
\* value, as the record [str |-> value]: the statements the engine sees.
RECURSIVE Statements(_, _)
Statements(text, i) ==
    IF i > Len(text) THEN <<>>
    ELSE IF text[i] = DQ
         THEN LET e == LiteralEnd(text, i + 1) IN
              IF e = 0 THEN <<[str |-> "unterminated"]>>
              ELSE <<[str |-> LiteralValue(text, i + 1, e - 1)]>> \o Statements(text, e + 1)
    ELSE <<[code |-> text[i]]>> \o Statements(text, i + 1)

\* The statements of the driver of a document
Expected(resume) ==
    <<[code |-> "#import "],
      [str |-> <<"templates/", template_name(new, resume.template), ".typ">>],
      [code |-> ": template"],
      [code |-> "#set page("], [code |-> "paper: "],
      [str |-> <<IF resume.format = "A4" THEN "a4" ELSE "us-letter">>],
      [code |-> ","], [code |-> "margin: "], [code |-> ToString(resume.margin) \o "pt"],
      [code |-> ","], [code |-> ")"],
      [code |-> "#set text("], [code |-> "font: "],
      [str |-> resume.family],
      [code |-> ","], [code |-> "size: "], [code |-> ToString(resume.font_size) \o "pt"],
      [code |-> ","], [code |-> ")"],
      [code |-> "#let data = json.decode("],
      [str |-> to_string(resume)],
      [code |-> ")"], [code |-> "#template(data)"]>>

\* C29: whatever the strings of the document hold, the engine reads the
\* driver as the same statements: the import of a catalogue template, the
\* page and text directives, json.decode of one literal whose value is the
\* serialised document, and the template call; the font literal's value is
\* the font family, and no literal ends before its closing quote.
C29_DocumentStaysInsideLiterals ==
    (driver # NoVal /\ driver.ok) =>
        /\ Statements(driver.val, 1) = Expected(ddoc)
        /\ template_name(new, ddoc.template) \in TEMPLATES

\* A driver was generated for a document whose font family and name hold a
\* quote and a backslash.
C29_Witness ==
    /\ driver # NoVal /\ driver.ok
    /\ ddoc.family = <<BS, DQ>>
    /\ ddoc.name = <<DQ, BS>>
    /\ ddoc.template = DQ

====
